---------------------------- MODULE Spec2Model ----------------------------
(***************************************************************************)
(* Session runtime of the lecture assistant (backend/routers/ws.py,        *)
(* backend/services/smallest_service.py, backend/services/cache.py,        *)
(* backend/services/extractor.py, backend/services/gemini_info_service.py).*)
(*                                                                         *)
(* Text is a sequence of one-character strings, so that strip, lower,      *)
(* whitespace collapse, join and slicing are computed as the code does.    *)
(* Wall-clock time is an integer number of seconds.                        *)
(***************************************************************************)
EXTENDS Integers, Sequences, FiniteSets, TLC

(***************************************************************************)
(* Bounds of the model                                                     *)
(***************************************************************************)
\* STT results the upstream delivers in one run of Spec / SpecStt / SpecJob
MaxResults == 2
SttMaxResults == 4
JobMaxResults == 1
\* pipeline invocations the scheduler starts in one run of Spec / SpecJob
MaxInvocations == 2
JobMaxInvocations == 1
\* user deep_research messages in one run of SpecJob
MaxUserJobs == 1
\* STT results and pipeline invocations in one run of SpecRetry
RetryMaxResults == 1
RetryMaxInvocations == 2
\* STT results, pipeline invocations, user deep_research messages and
\* other non-terminal inbound frames in one run of SpecCtl / SpecReopen
CtlMaxResults == 1
CtlMaxInvocations == 1
CtlMaxUserJobs == 1
CtlMaxFrames == 1
CtlMaxTicks == 2
\* inbound frames, STT results and Ticks in one run of SpecPause
PauseMaxFrames == 4
PauseMaxResults == 2
PauseMaxTicks == 1
\* STT results, pipeline invocations and Ticks in one run of SpecContext
ContextMaxResults == 3
ContextMaxInvocations == 1
ContextMaxTicks == 1
\* inbound frames, STT results and Ticks in one run of SpecUpstream
UpstreamMaxFrames == 3
UpstreamMaxResults == 1
UpstreamMaxTicks == 1
\* maxsize of the TermCache of SpecCache and the calls made on it
CacheCapacity == 2
CacheMaxCalls == 4
\* STT results, pipeline invocations and Ticks in one run of SpecStore
StoreMaxResults == 1
StoreMaxInvocations == 1
StoreMaxTicks == 2
\* STT results and pipeline invocations in one run of SpecBuffer
BufferMaxResults == 2
BufferMaxInvocations == 2
\* STT results, client frames and Ticks in one run of SpecSaver
SaverMaxResults == 2
SaverMaxFrames == 1
SaverMaxTicks == 1
\* STT results, client frames, Ticks and WebSocket accepts in one run of
\* SpecRegistry
RegistryMaxResults == 1
RegistryMaxFrames == 1
RegistryMaxTicks == 1
RegistryMaxSessions == 3
\* WebSocket accepts for the lecture in one run of SpecReopen
ReopenMaxSessions == 2
\* inbound frames, STT results and Ticks in one run of SpecAudio
AudioMaxFrames == 3
AudioMaxResults == 1
AudioMaxTicks == 1
\* STT results, pipeline invocations and Ticks in one run of SpecShared
SharedMaxResults == 2
SharedMaxInvocations == 2
SharedMaxTicks == 1
\* WebSockets open on the lecture at one time
MaxHandlers == 2
\* seconds by which one Tick advances the wall clock
TickStep == 20
\* number of Ticks in one run
MaxTicks == 3
\* time.time() when the SmallestSession is constructed
StartEpoch == 1000

(***************************************************************************)
(* Program constants                                                       *)
(***************************************************************************)
MIN_PIPELINE_INTERVAL == 20
RETRY_BACKOFF == 20
DEEP_RESEARCH_INTERVAL == 30
\* emphasis_level is modelled in tenths: 0.6 is 6
EMPHASIS_THRESHOLD_FOR_DR == 6
DEFAULT_EMPHASIS == 5
TERM_CACHE_MAXSIZE == 512
PIPELINE_CONTEXT_CHARS == 500
RETRY_CONTEXT_CHARS == 300

(***************************************************************************)
(* Text                                                                    *)
(***************************************************************************)
\* Python's falsy text value: None or "" (the code tests both with `if x`)
None == <<>>

IsSpace(c) == c = " "

LowerChar(c) ==
    IF c = "A" THEN "a" ELSE IF c = "B" THEN "b" ELSE c

\* str.lower()
lower(s) == [i \in 1..Len(s) |-> LowerChar(s[i])]

RECURSIVE lstrip(_)
lstrip(s) ==
    IF s = <<>> THEN <<>>
    ELSE IF IsSpace(Head(s)) THEN lstrip(Tail(s)) ELSE s

RECURSIVE rstrip(_)
rstrip(s) ==
    IF s = <<>> THEN <<>>
    ELSE IF IsSpace(s[Len(s)]) THEN rstrip(SubSeq(s, 1, Len(s) - 1)) ELSE s

\* str.strip()
strip(s) == rstrip(lstrip(s))

\* re.sub(r"\s+", " ", s): every maximal run of whitespace becomes one space
RECURSIVE CollapseWs(_)
CollapseWs(s) ==
    IF s = <<>> THEN <<>>
    ELSE IF IsSpace(Head(s))
         THEN <<" ">> \o CollapseWs(lstrip(s))
         ELSE <<Head(s)>> \o CollapseWs(Tail(s))

\* " ".join(list)
RECURSIVE Join(_)
Join(list) ==
    IF list = <<>> THEN <<>>
    ELSE IF Len(list) = 1 THEN list[1]
    ELSE list[1] \o <<" ">> \o Join(Tail(list))

\* s[-chars:]
LastChars(s, chars) ==
    IF Len(s) <= chars THEN s ELSE SubSeq(s, Len(s) - chars + 1, Len(s))

\* Python's `sub in s`
IsSubstring(sub, s) ==
    \E i \in 0..(Len(s) - Len(sub)) : SubSeq(s, i + 1, i + Len(sub)) = sub

Range(f) == {f[i] : i \in DOMAIN f}

(***************************************************************************)
(* TermCache (services/cache.py): an OrderedDict, oldest entry first       *)
(***************************************************************************)
\* TermCache._normalise
_normalise(term) == CollapseWs(lower(strip(term)))

CacheKeys(cache) == {cache[i].key : i \in DOMAIN cache}

\* TermCache.contains
contains(cache, term) == _normalise(term) \in CacheKeys(cache)

RemoveKey(cache, key) == SelectSeq(cache, LAMBDA e : e.key # key)

\* OrderedDict.move_to_end(key) for a key that is present
move_to_end(cache, key) ==
    SelectSeq(cache, LAMBDA e : e.key # key)
        \o SelectSeq(cache, LAMBDA e : e.key = key)

\* TermCache.get: the value returned and the cache afterwards
get(cache, term) ==
    LET key == _normalise(term)
        hit == SelectSeq(cache, LAMBDA e : e.key = key)
    IN  IF hit # <<>>
        THEN [value |-> hit[1].value, cache |-> move_to_end(cache, key)]
        ELSE [value |-> None, cache |-> cache]

\* mutant of put: a key that is present keeps its place
put_KeepsPlace(cache, term, value, maxsize) ==
    LET key == _normalise(term)
    IN  IF key \in {cache[i].key : i \in DOMAIN cache}
        THEN [i \in DOMAIN cache |->
                 IF cache[i].key = key THEN [key |-> key, value |-> value]
                 ELSE cache[i]]
        ELSE IF Len(cache) + 1 > maxsize
             THEN Tail(Append(cache, [key |-> key, value |-> value]))
             ELSE Append(cache, [key |-> key, value |-> value])

\* TermCache.put: assign, move_to_end, evict the first entry on overflow
put(cache, term, value, maxsize) ==
    LET key   == _normalise(term)
        moved == Append(RemoveKey(cache, key), [key |-> key, value |-> value])
    IN  IF Len(moved) > maxsize THEN Tail(moved) ELSE moved

\* TermCache.filter_new
filter_new(cache, terms) == SelectSeq(terms, LAMBDA t : ~contains(cache, t))


(***************************************************************************)
(* Inputs                                                                  *)
(***************************************************************************)
T_ab   == <<"a", "b">>
T_Ab_  == <<"A", "b", " ">>
T_a_b  == <<"a", " ", "b">>
T_a__b == <<"a", " ", " ", "b">>

\* JSON payloads the upstream STT may deliver (is_final may be missing)
SttPayloads ==
    { [transcript |-> <<"x">>,      is_final |-> "true"],
      [transcript |-> <<"y", "z">>, is_final |-> "absent"],
      [transcript |-> <<" ">>,      is_final |-> "true"],
      [transcript |-> <<>>,         is_final |-> "true"],
      [transcript |-> <<"x">>,      is_final |-> "false"] }

\* the payloads that carry a final utterance with words in it
UtterancePayloads ==
    { [transcript |-> <<"x">>,      is_final |-> "true"],
      [transcript |-> <<"y", "z">>, is_final |-> "absent"] }

\* one final utterance
OneUtterancePayload ==
    { [transcript |-> <<"x">>, is_final |-> "true"] }

\* an answer of the analysis LLM with every field filled in
FullLlmResponse ==
    [terms |-> << [term |-> T_a__b, type |-> "concept"] >>,
     topic |-> T_a_b, emphasis_level |-> 7,
     takeaway |-> <<"k">>, summary |-> <<"s">>]

\* a final and an interim result
FinalAndInterimPayloads ==
    { [transcript |-> <<"x">>, is_final |-> "true"],
      [transcript |-> <<"x">>, is_final |-> "false"] }

\* a final utterance that fills the context tail of a pipeline by itself
T_long == [i \in 1..PIPELINE_CONTEXT_CHARS |-> "x"]

\* a short and a long final utterance and an interim result
ContextPayloads ==
    { [transcript |-> <<"y">>, is_final |-> "true"],
      [transcript |-> T_long,  is_final |-> "absent"],
      [transcript |-> <<"z">>, is_final |-> "false"] }

\* terms a TermCache is called with: the first two have the same key
CacheTerms == {T_ab, T_Ab_, T_a__b, <<"c">>}

\* lists filter_new is called with
CacheTermLists == { <<T_Ab_, <<"c">>>>, <<T_a_b>> }

\* a final utterance with a word and one of white space only
BufferPayloads ==
    { [transcript |-> <<"x">>, is_final |-> "true"],
      [transcript |-> <<" ">>, is_final |-> "true"] }

\* JSON objects the analysis LLM may answer with (before parsing)
LlmResponses ==
    { [terms |-> << [term |-> T_ab, type |-> "concept"],
                    [term |-> T_Ab_, type |-> "person"] >>,
       topic |-> None, emphasis_level |-> DEFAULT_EMPHASIS,
       takeaway |-> None, summary |-> None],
      FullLlmResponse,
      [terms |-> << [term |-> <<>>, type |-> "concept"],
                    [term |-> T_ab, type |-> "event"] >>,
       topic |-> T_a_b, emphasis_level |-> EMPHASIS_THRESHOLD_FOR_DR,
       takeaway |-> None, summary |-> <<"s">>] }

\* selected_text of the user's deep_research messages
SelectedTexts == { T_a_b }

(***************************************************************************)
(* State                                                                   *)
(***************************************************************************)
VARIABLES
    limits,                  \* the bounds of the run, fixed by the initial condition
    clock,                   \* time.time()
    stt,                     \* SmallestSession: _full_transcript, _start_time
    loop_calls,              \* callbacks handed to loop.call_soon_threadsafe
    utterance_queue,         \* SmallestSession.utterance_queue
    interim_queue,           \* SmallestSession.interim_queue
    received,                \* history: payloads the receiver has read
    term_cache,              \* the session's TermCache
    deep_research_cache,     \* websocket_endpoint: researched topics
    last_deep_research_time, \* websocket_endpoint
    sched,                   \* locals of process_utterances
    pc,                      \* where process_utterances / _run_pipeline is suspended
    call,                    \* locals of the _run_pipeline call in flight
    invocations,             \* history: one record per _run_pipeline call
    cards,                   \* table cards
    takeaways,               \* table takeaways
    lecture,                 \* the lecture's row
    outbound,                \* history: events written to the client socket
    socket,                  \* the client WebSocket: open, failed (a write raised), closed
    job,                     \* the handle_deep_research task
    jobs_started,            \* number of handle_deep_research tasks created
    ctl,                     \* locals of websocket_endpoint and its place in the code
    frames,                  \* history: inbound frames the controller has read
    audio,                   \* chunks in SmallestSession._audio_queue and at the upstream
    peer,                    \* the locals of the lecture's other websocket_endpoint call
    cache_calls,             \* history: the calls made on the TermCache by name
    registry                 \* the lecture ids in _sessions and in _session_caches

sttVars   == <<stt, loop_calls, utterance_queue, interim_queue, received>>
schedVars == <<term_cache, deep_research_cache, last_deep_research_time,
               sched, pc, call, invocations>>
storeVars == <<cards, takeaways, lecture>>
sinkVars  == <<outbound, socket>>
jobVars   == <<job, jobs_started>>
ctlVars   == <<ctl, frames, audio>>
vars == <<limits, clock, sttVars, schedVars, storeVars, sinkVars, jobVars, ctlVars,
          peer, cache_calls, registry>>

NoCall ==
    [utterance |-> <<>>, now |-> 0, analysis |-> <<>>, ts |-> 0,
     context_tail |-> <<>>, results |-> <<>>, saved |-> <<>>, target |-> <<>>,
     inv |-> 0]

\* `session` and `start_time` are the WebSocket and the SmallestSession the
\* task's closure refers to
NoJob ==
    [pc |-> "none", selected_text |-> <<>>, saved |-> <<>>,
     session |-> 0, start_time |-> 0]

\* the locals of a websocket_endpoint call that is waiting in receive();
\* `transcript` is the transcript argument of the call in flight; `session`,
\* `ended`, `end_duration`, `end_finalize` and `finalize` are history: the
\* number of the accept, an end_session message was handled, the duration it
\* read, and the outcome of its and of the teardown's _finalize_lecture;
\* `transcript_save_task` is where periodic_transcript_save is suspended
\* ("sleep", or "save" in _save_transcript_chunk) and `saving` the transcript
\* that call was given
NewHandler(session) ==
    [pc |-> "receive", session |-> session, interim_task |-> "running",
     transcript_save_task |-> "sleep", saving |-> <<>>,
     duration |-> 0, final_summary |-> <<>>, transcript |-> <<>>,
     ended |-> FALSE, end_duration |-> 0,
     end_finalize |-> "none", finalize |-> "none"]

\* a SmallestSession constructed at time `now` whose thread has opened the
\* upstream connection and runs its sender and receiver; `thread` is
\* "ended" when _run_async has returned, which closes the connection
NewSmallestSession(now) ==
    [full_transcript |-> <<>>, start_time |-> now,
     paused |-> FALSE, stopped |-> FALSE, thread |-> "running"]

\* the locals of process_utterances when the task starts at time `now`
NewScheduler(now) ==
    [utterance_buffer |-> <<>>,
     last_process_time |-> now,
     last_pipeline_time |-> 0,
     retry_pending |-> FALSE,
     retry_after |-> 0]

\* the locals of one websocket_endpoint call and of its tasks: what `peer`
\* holds for the call that is not running
Locals ==
    [ctl |-> ctl, sched |-> sched, pc |-> pc, call |-> call,
     deep_research_cache |-> deep_research_cache,
     last_deep_research_time |-> last_deep_research_time,
     socket |-> socket, outbound |-> outbound]

\* no other call of websocket_endpoint has been made for the lecture
NoPeer ==
    [ctl |-> [NewHandler(0) EXCEPT !.pc = "none", !.interim_task = "none",
                                   !.transcript_save_task = "none"],
     sched |-> NewScheduler(0), pc |-> "none", call |-> NoCall,
     deep_research_cache |-> {}, last_deep_research_time |-> 0,
     socket |-> "none", outbound |-> <<>>]

\* the handler has accepted its WebSocket and has not returned
IsLive(handler) == handler.pc \notin {"none", "closed"}

\* the audio queue of a SmallestSession that was sent nothing, with its
\* sender waiting in get(): `queue` counts the chunks in the queue,
\* `sentinel` is the None that stop() puts behind them, `upstream` the
\* chunks the upstream has not answered yet, `finalize_sent` that the
\* finalize frame was sent; `dropped` is history: the chunks send_audio
\* returned on without enqueuing them
NoAudio ==
    [queue |-> 0, sentinel |-> FALSE, sender |-> "get", upstream |-> 0,
     finalize_sent |-> FALSE, dropped |-> 0]

\* the lecture's row as the CRUD router creates it; `present` is FALSE when
\* the table has no row with the lecture id
NewLecture ==
    [summary |-> None, transcript |-> None, status |-> "idle",
     duration_seconds |-> 0, present |-> TRUE]

\* the id of the lecture the WebSockets are opened on
lecture_id == "L"

\* the two module-level registries with no lecture in them
NoRegistry == [_sessions |-> {}, _session_caches |-> {}]

\* the registries after get_or_create_session and get_session_cache
Registered(reg) ==
    [_sessions |-> reg._sessions \cup {lecture_id},
     _session_caches |-> reg._session_caches \cup {lecture_id}]

\* the registries after close_session and drop_session_cache
Dropped(reg) ==
    [_sessions |-> reg._sessions \ {lecture_id},
     _session_caches |-> reg._session_caches \ {lecture_id}]

\* the state when websocket_endpoint has created its tasks, with the
\* SmallestSession that get_or_create_session returned and the row the
\* table has for the lecture id
StartWith(session, row) ==
    /\ clock = StartEpoch
    /\ stt = session
    /\ loop_calls = <<>>
    /\ utterance_queue = <<>>
    /\ interim_queue = <<>>
    /\ received = <<>>
    /\ term_cache = <<>>
    /\ deep_research_cache = {}
    /\ last_deep_research_time = 0
    /\ sched = NewScheduler(StartEpoch)
    /\ pc = "idle"
    /\ call = NoCall
    /\ invocations = <<>>
    /\ cards = <<>>
    /\ takeaways = <<>>
    /\ lecture = row
    /\ outbound = <<>>
    /\ socket = "open"
    /\ job = NoJob
    /\ jobs_started = 0
    /\ ctl = NewHandler(1)
    /\ frames = <<>>
    /\ audio = NoAudio
    /\ peer = NoPeer
    /\ cache_calls = <<>>
    /\ registry = Registered(NoRegistry)

\* the same, the upstream connection having opened for a lecture the CRUD
\* router has created
Start == StartWith(NewSmallestSession(StartEpoch), NewLecture)

(***************************************************************************)
(* Clock and SmallestSession                                               *)
(***************************************************************************)
Tick ==
    /\ clock < StartEpoch + limits.ticks * TickStep
    /\ clock' = clock + TickStep
    /\ UNCHANGED <<limits, peer, cache_calls, registry, ctlVars, sttVars, schedVars, storeVars, sinkVars, jobVars>>

\* mutant of elapsed_seconds: the start time is not subtracted
elapsed_seconds_Absolute == clock

\* SmallestSession.elapsed_seconds
elapsed_seconds == clock - stt.start_time

\* mutant of IsFinal: every result counts as final
IsFinal_Always(payload) == TRUE

\* SmallestSession.get_context_tail
get_context_tail(chars) == LastChars(stt.full_transcript, chars)


\* bool(payload.get("is_final", True))
IsFinal(payload) == payload.is_final # "false"

\* mutant of AppendTranscript: the separating space is forgotten
AppendTranscript_NoSeparator(transcript, text) == transcript \o text

\* the transcript after one more final text
AppendTranscript(transcript, text) ==
    IF transcript # <<>> THEN transcript \o <<" ">> \o text ELSE text

\* the upstream answers audio it was sent; where the audio feed is not part
\* of the run (limits.audio is FALSE) it may answer at any time
UpstreamAnswers ==
    IF limits.audio
    THEN /\ audio.upstream > 0
         /\ audio' = [audio EXCEPT !.upstream = @ - 1]
    ELSE UNCHANGED audio

\* SmallestSession._receiver: one message of the upstream socket; the task
\* ends when stop() has ended the sender
Receiver ==
    /\ ~stt.stopped
    /\ stt.thread = "running"
    /\ Len(received) < limits.results
    /\ UpstreamAnswers
    /\ \E payload \in limits.payloads :
         LET text == payload.transcript
             timestamp_seconds == elapsed_seconds
         IN
         /\ received' = Append(received, payload)
         /\ IF text = <<>>
            THEN UNCHANGED <<stt, loop_calls>>
            ELSE IF IsFinal(payload)
            THEN /\ stt' = [stt EXCEPT !.full_transcript =
                                AppendTranscript(stt.full_transcript, text)]
                 /\ loop_calls' = loop_calls \o
                      << [queue |-> "utterance", text |-> text,
                          timestamp_seconds |-> timestamp_seconds,
                          is_final |-> TRUE],
                         [queue |-> "interim", text |-> text,
                          timestamp_seconds |-> timestamp_seconds,
                          is_final |-> TRUE] >>
            ELSE /\ UNCHANGED stt
                 /\ loop_calls' = Append(loop_calls,
                        [queue |-> "interim", text |-> text,
                         timestamp_seconds |-> timestamp_seconds,
                         is_final |-> FALSE])
    /\ UNCHANGED <<limits, peer, cache_calls, registry, ctl, frames, clock, utterance_queue, interim_queue,
                   schedVars, storeVars, sinkVars, jobVars>>

\* the event loop runs the oldest call_soon_threadsafe callback: put_nowait
\* of (text, speaker, timestamp_seconds) or of (text, speaker,
\* timestamp_seconds, is_final); speaker is always None and is left out
LoopCallback ==
    /\ loop_calls # <<>>
    /\ LET c == Head(loop_calls)
       IN  IF c.queue = "utterance"
           THEN /\ utterance_queue' = Append(utterance_queue,
                      [text |-> c.text, timestamp_seconds |-> c.timestamp_seconds])
                /\ UNCHANGED interim_queue
           ELSE /\ interim_queue' = Append(interim_queue,
                      [text |-> c.text, timestamp_seconds |-> c.timestamp_seconds,
                       is_final |-> c.is_final])
                /\ UNCHANGED utterance_queue
    /\ loop_calls' = Tail(loop_calls)
    /\ UNCHANGED <<limits, peer, cache_calls, registry, ctlVars, clock, stt, received, schedVars, storeVars, sinkVars, jobVars>>

(***************************************************************************)
(* Artifact store and outbound sink (routers/ws.py)                        *)
(***************************************************************************)
\* uuid.uuid4(): an id no row has yet
FreshId == Len(cards) + Len(takeaways) + 1

\* the row _save_card inserts and returns
CardRow(card_type, term, badge_type, timestamp_seconds, by) ==
    [id |-> FreshId, type |-> card_type, term |-> term,
     badge_type |-> badge_type,
     lecture_timestamp_seconds |-> timestamp_seconds,
     by |-> by, inv |-> IF by = "scheduler" THEN call.inv ELSE 0]

\* the row _save_takeaway inserts and returns
TakeawayRow(text, timestamp_seconds) ==
    [id |-> FreshId, text |-> text,
     lecture_timestamp_seconds |-> timestamp_seconds,
     inv |-> call.inv]

\* what send_json writes to the socket; `by` and `inv` record the task and
\* the pipeline invocation that sent it
Event(type, payload, by) ==
    [type |-> type, payload |-> payload, by |-> by,
     inv |-> IF by = "scheduler" THEN call.inv ELSE 0]

\* send_json: the event is written, or send_text raises and the exception is
\* swallowed; a socket that has failed or is closed raises on every write
send_json(event) ==
    IF socket = "open"
    THEN \/ /\ outbound' = Append(outbound, event)
            /\ socket' = socket
         \/ /\ limits.write_failures
            /\ socket' = "failed"
            /\ UNCHANGED outbound
    ELSE UNCHANGED <<outbound, socket>>

(***************************************************************************)
(* Analysis adapter                                                        *)
(***************************************************************************)
\* analyze_utterance: what it returns for the parsed LLM answer `data`
ParseAnalysis(data) ==
    [terms |-> SelectSeq(data.terms, LAMBDA t : t.term # <<>>),
     topic |-> data.topic,
     emphasis_level |-> data.emphasis_level,
     takeaway |-> data.takeaway,
     summary |-> data.summary]

\* analyze_utterance: the default it returns for a blank utterance
DefaultAnalysis ==
    [terms |-> <<>>, topic |-> None, emphasis_level |-> DEFAULT_EMPHASIS,
     takeaway |-> None, summary |-> None]

\* auto_define_batch._define_one: badge of a defined term
BadgeOf(type) ==
    IF type \in {"person", "event", "concept"} THEN type ELSE "concept"

\* auto_define_batch: the records of the terms whose definition call
\* succeeded (indices in `ok`), in the order of `terms`
RECURSIVE DefineResults(_, _, _)
DefineResults(terms, ok, i) ==
    IF i > Len(terms) THEN <<>>
    ELSE (IF i \in ok /\ strip(terms[i].term) # <<>>
          THEN << [term |-> terms[i].term,
                   badge_type |-> BadgeOf(terms[i].type)] >>
          ELSE <<>>) \o DefineResults(terms, ok, i + 1)

(***************************************************************************)
(* process_utterances: the scheduler loop                                  *)
(***************************************************************************)
\* what the loop leaves behind when _run_pipeline has returned `success`
Return(success) ==
    /\ sched' = [sched EXCEPT
                   !.retry_pending = ~success,
                   !.retry_after = IF success THEN @ ELSE call.now + RETRY_BACKOFF]
    /\ invocations' = [invocations EXCEPT
                          ![call.inv].result =
                              IF success THEN "ok" ELSE "failed",
                          ![call.inv].at = pc]
    /\ pc' = "idle"
    /\ call' = NoCall

\* mutant of ShouldRetry: a retry waits for new content in the buffer
ShouldRetry_NeedsContent(now) ==
    sched.retry_pending /\ now >= sched.retry_after /\ sched.utterance_buffer # <<>>

\* mutant of ShouldProcess: the cooldown is not checked
ShouldProcess_NoCooldown(buffer, now) == Len(buffer) > 0

\* Normal trigger: new content and the cooldown has passed
ShouldProcess(buffer, now) ==
    /\ Len(buffer) > 0
    /\ now - sched.last_process_time >= MIN_PIPELINE_INTERVAL
    /\ now - sched.last_pipeline_time >= MIN_PIPELINE_INTERVAL

\* Retry trigger: the previous attempt failed and the back-off has passed
ShouldRetry(now) == sched.retry_pending /\ now >= sched.retry_after

\* mutant of LoopIteration: the buffer is not cleared when an invocation starts
LoopIteration_KeepsBuffer(item) ==
    LET buffer == IF item # None /\ strip(item) # <<>>
                  THEN Append(sched.utterance_buffer, item)
                  ELSE sched.utterance_buffer
        now == clock
        should_process == ShouldProcess(buffer, now)
        should_retry == ShouldRetry(now)
        combined == IF buffer # <<>> THEN Join(buffer)
                    ELSE get_context_tail(RETRY_CONTEXT_CHARS)
    IN  IF should_process \/ should_retry
        THEN /\ Len(invocations) < limits.invocations
             /\ sched' = [sched EXCEPT !.utterance_buffer = buffer,
                                       !.last_process_time = now,
                                       !.last_pipeline_time = now]
             /\ call' = [NoCall EXCEPT !.utterance = combined, !.now = now,
                                       !.inv = Len(invocations) + 1]
             /\ invocations' = Append(invocations,
                    [now |-> now, combined |-> combined,
                     buffer |-> buffer,
                     normal |-> should_process, retry |-> should_retry,
                     result |-> "running", at |-> "none"])
             /\ pc' = "analyze"
        ELSE /\ sched' = [sched EXCEPT !.utterance_buffer = buffer]
             /\ UNCHANGED <<call, invocations, pc>>

\* one iteration of the while loop up to the call of _run_pipeline;
\* `item` is the dequeued utterance, or None on the 1 s timeout
LoopIteration(item) ==
    LET buffer == IF item # None /\ strip(item) # <<>>
                  THEN Append(sched.utterance_buffer, item)
                  ELSE sched.utterance_buffer
        now == clock
        should_process == ShouldProcess(buffer, now)
        should_retry == ShouldRetry(now)
        combined == IF buffer # <<>> THEN Join(buffer)
                    ELSE get_context_tail(RETRY_CONTEXT_CHARS)
    IN  IF should_process \/ should_retry
        THEN /\ Len(invocations) < limits.invocations
             /\ sched' = [sched EXCEPT !.utterance_buffer = <<>>,
                                       !.last_process_time = now,
                                       !.last_pipeline_time = now]
             /\ call' = [NoCall EXCEPT !.utterance = combined, !.now = now,
                                       !.inv = Len(invocations) + 1]
             /\ invocations' = Append(invocations,
                    [now |-> now, combined |-> combined,
                     buffer |-> buffer,
                     normal |-> should_process, retry |-> should_retry,
                     result |-> "running", at |-> "none"])
             /\ pc' = "analyze"
        ELSE /\ sched' = [sched EXCEPT !.utterance_buffer = buffer]
             /\ UNCHANGED <<call, invocations, pc>>

\* wait_for(utterance_queue.get()) returns an utterance
Dequeue ==
    /\ pc = "idle"
    /\ utterance_queue # <<>>
    /\ LoopIteration(Head(utterance_queue).text)
    /\ utterance_queue' = Tail(utterance_queue)
    /\ UNCHANGED <<limits, peer, cache_calls, registry, ctlVars, clock, stt, loop_calls, interim_queue, received, term_cache,
                   deep_research_cache, last_deep_research_time, storeVars,
                   sinkVars, jobVars>>

\* wait_for(utterance_queue.get()) times out
Timeout ==
    /\ pc = "idle"
    /\ utterance_queue = <<>>
    /\ LoopIteration(None)
    /\ UNCHANGED <<limits, peer, cache_calls, registry, ctlVars, clock, sttVars, term_cache, deep_research_cache,
                   last_deep_research_time, storeVars, sinkVars, jobVars>>

(***************************************************************************)
(* _run_pipeline: one action per await, with the code up to the next one   *)
(***************************************************************************)
\* mutant of After: the summary step is placed before the takeaway step
After_SummaryFirst(step) ==
    CASE step = "analyze"  -> "topic"
      [] step = "topic"    -> "summary"
      [] step = "summary"  -> "takeaway"
      [] step = "takeaway" -> "terms"
      [] step = "terms"    -> "dr"

\* the order of the numbered steps in the body of _run_pipeline
After(step) ==
    CASE step = "analyze"  -> "topic"
      [] step = "topic"    -> "takeaway"
      [] step = "takeaway" -> "summary"
      [] step = "summary"  -> "terms"
      [] step = "terms"    -> "dr"

\* mutant of Analyze: a failed analysis counts as a deep-research attempt
Analyze_FailureThrottles ==
    /\ pc = "analyze"
    /\ \/ /\ \E data \in limits.responses :
               call' = [call EXCEPT !.analysis = ParseAnalysis(data),
                                    !.ts = elapsed_seconds,
                                    !.context_tail = get_context_tail(PIPELINE_CONTEXT_CHARS)]
          /\ pc' = After("analyze")
          /\ UNCHANGED <<sched, invocations, last_deep_research_time>>
       \/ /\ strip(call.utterance) # <<>>
          /\ Return(FALSE)
          /\ last_deep_research_time' = clock
    /\ UNCHANGED <<limits, peer, cache_calls, registry, ctlVars, clock, sttVars, term_cache, deep_research_cache,
                   storeVars, sinkVars, jobVars>>

\* 1. analyze_utterance returns (the default for a blank input, else the
\* parsed answer, never a falsy value) or raises; then the ts/context snapshot
Analyze ==
    /\ pc = "analyze"
    /\ \/ /\ strip(call.utterance) = <<>>
          /\ call' = [call EXCEPT !.analysis = DefaultAnalysis,
                                  !.ts = elapsed_seconds,
                                  !.context_tail = get_context_tail(PIPELINE_CONTEXT_CHARS)]
          /\ pc' = After("analyze")
          /\ UNCHANGED <<sched, invocations>>
       \/ /\ strip(call.utterance) # <<>>
          /\ \E data \in limits.responses :
               call' = [call EXCEPT !.analysis = ParseAnalysis(data),
                                    !.ts = elapsed_seconds,
                                    !.context_tail = get_context_tail(PIPELINE_CONTEXT_CHARS)]
          /\ pc' = After("analyze")
          /\ UNCHANGED <<sched, invocations>>
       \/ /\ strip(call.utterance) # <<>>
          /\ Return(FALSE)
    /\ UNCHANGED <<limits, peer, cache_calls, registry, ctlVars, clock, sttVars, term_cache, deep_research_cache,
                   last_deep_research_time, storeVars, sinkVars, jobVars>>

\* 2. topic_update
Topic ==
    /\ pc = "topic"
    /\ IF call.analysis.topic # None
       THEN send_json(Event("topic_update", call.analysis.topic, "scheduler"))
       ELSE UNCHANGED sinkVars
    /\ pc' = After("topic")
    /\ UNCHANGED <<limits, peer, cache_calls, registry, ctlVars, clock, sttVars, term_cache, deep_research_cache,
                   last_deep_research_time, sched, call, invocations,
                   storeVars, jobVars>>

\* 3. _save_takeaway commits or raises
Takeaway ==
    /\ pc = "takeaway"
    /\ IF call.analysis.takeaway # None
       THEN \/ /\ takeaways' = Append(takeaways,
                      TakeawayRow(call.analysis.takeaway, call.ts))
               /\ call' = [call EXCEPT !.saved =
                      TakeawayRow(call.analysis.takeaway, call.ts)]
               /\ pc' = "takeaway_send"
               /\ UNCHANGED <<sched, invocations>>
            \/ /\ Return(FALSE)
               /\ UNCHANGED takeaways
       ELSE /\ pc' = After("takeaway")
            /\ UNCHANGED <<takeaways, call, sched, invocations>>
    /\ UNCHANGED <<limits, peer, cache_calls, registry, ctlVars, clock, sttVars, term_cache, deep_research_cache,
                   last_deep_research_time, cards, lecture, sinkVars, jobVars>>

TakeawaySend ==
    /\ pc = "takeaway_send"
    /\ send_json(Event("new_takeaway", call.saved, "scheduler"))
    /\ pc' = After("takeaway")
    /\ UNCHANGED <<limits, peer, cache_calls, registry, ctlVars, clock, sttVars, term_cache, deep_research_cache,
                   last_deep_research_time, sched, call, invocations,
                   storeVars, jobVars>>

\* 4. summary_update is sent first ...
Summary ==
    /\ pc = "summary"
    /\ IF call.analysis.summary # None
       THEN /\ send_json(Event("summary_update", call.analysis.summary, "scheduler"))
            /\ pc' = "summary_save"
       ELSE /\ pc' = After("summary")
            /\ UNCHANGED sinkVars
    /\ UNCHANGED <<limits, peer, cache_calls, registry, ctlVars, clock, sttVars, term_cache, deep_research_cache,
                   last_deep_research_time, sched, call, invocations,
                   storeVars, jobVars>>

\* ... and _update_lecture_summary commits or raises afterwards
SummarySave ==
    /\ pc = "summary_save"
    /\ \/ /\ lecture' = IF ~lecture.present THEN lecture
                      ELSE [lecture EXCEPT !.summary = call.analysis.summary]
          /\ pc' = After("summary")
          /\ UNCHANGED <<sched, call, invocations>>
       \/ /\ Return(FALSE)
          /\ UNCHANGED lecture
    /\ UNCHANGED <<limits, peer, cache_calls, registry, ctlVars, clock, sttVars, term_cache, deep_research_cache,
                   last_deep_research_time, cards, takeaways, sinkVars, jobVars>>

\* the terms of `terms` that filter_new keeps
NewTermDicts(cache, terms) ==
    LET new_term_strs == filter_new(cache, [i \in DOMAIN terms |-> terms[i].term])
    IN  SelectSeq(terms, LAMBDA t : t.term \in Range(new_term_strs))

\* 5. filter_new, then auto_define_batch is called
Terms ==
    /\ pc = "terms"
    /\ LET terms == call.analysis.terms
           new_term_dicts == NewTermDicts(term_cache, terms)
       IN  IF terms # <<>> /\ new_term_dicts # <<>>
           THEN /\ call' = [call EXCEPT !.results = new_term_dicts]
                /\ pc' = "define"
           ELSE /\ pc' = After("terms")
                /\ UNCHANGED call
    /\ UNCHANGED <<limits, peer, cache_calls, registry, ctlVars, clock, sttVars, term_cache, deep_research_cache,
                   last_deep_research_time, sched, invocations,
                   storeVars, sinkVars, jobVars>>

\* auto_define_batch returns the records of the calls that succeeded
Define ==
    /\ pc = "define"
    /\ \E ok \in SUBSET DOMAIN call.results :
         call' = [call EXCEPT !.results = DefineResults(call.results, ok, 1)]
    /\ pc' = "cards"
    /\ UNCHANGED <<limits, peer, cache_calls, registry, ctlVars, clock, sttVars, term_cache, deep_research_cache,
                   last_deep_research_time, sched, invocations,
                   storeVars, sinkVars, jobVars>>

\* the cache after the loop body's term_cache.put(res["term"], res)
PutResult(cache, res) == put(cache, res.term, res, TERM_CACHE_MAXSIZE)

\* for res in results: term_cache.put, then _save_card commits or raises
Cards ==
    /\ pc = "cards"
    /\ IF call.results # <<>>
       THEN LET res == Head(call.results)
                row == CardRow("auto_define", res.term, res.badge_type,
                               call.ts, "scheduler")
            IN  /\ term_cache' = PutResult(term_cache, res)
                /\ \/ /\ cards' = Append(cards, row)
                      /\ call' = [call EXCEPT !.results = Tail(@), !.saved = row]
                      /\ pc' = "card_send"
                      /\ UNCHANGED <<sched, invocations>>
                   \/ /\ Return(FALSE)
                      /\ UNCHANGED cards
       ELSE /\ pc' = After("terms")
            /\ UNCHANGED <<term_cache, cards, call, sched, invocations>>
    /\ UNCHANGED <<limits, peer, cache_calls, registry, ctlVars, clock, sttVars, deep_research_cache, last_deep_research_time,
                   takeaways, lecture, sinkVars, jobVars>>

CardSend ==
    /\ pc = "card_send"
    /\ send_json(Event("new_card", call.saved, "scheduler"))
    /\ pc' = "cards"
    /\ UNCHANGED <<limits, peer, cache_calls, registry, ctlVars, clock, sttVars, term_cache, deep_research_cache,
                   last_deep_research_time, sched, call, invocations,
                   storeVars, jobVars>>

(***************************************************************************)
(* _run_pipeline: throttled deep research                                  *)
(***************************************************************************)
\* sorted(list, key=len, reverse=True): stable, longest first
RECURSIVE InsertByLen(_, _)
InsertByLen(sorted, x) ==
    IF sorted = <<>> THEN <<x>>
    ELSE IF Len(Head(sorted)) >= Len(x)
         THEN <<Head(sorted)>> \o InsertByLen(Tail(sorted), x)
         ELSE <<x>> \o sorted

RECURSIVE SortedByLenDesc(_)
SortedByLenDesc(list) ==
    IF list = <<>> THEN <<>>
    ELSE InsertByLen(SortedByLenDesc(SubSeq(list, 1, Len(list) - 1)),
                     list[Len(list)])

\* mutant of Candidates: the terms keep the order of the analysis
Candidates_Unsorted(analysis) ==
    (IF analysis.topic # None /\ analysis.emphasis_level > EMPHASIS_THRESHOLD_FOR_DR
     THEN <<analysis.topic>> ELSE <<>>)
    \o [i \in DOMAIN analysis.terms |-> analysis.terms[i].term]

\* the candidate list, in priority order
Candidates(analysis) ==
    (IF analysis.topic # None /\ analysis.emphasis_level > EMPHASIS_THRESHOLD_FOR_DR
     THEN <<analysis.topic>> ELSE <<>>)
    \o SortedByLenDesc([i \in DOMAIN analysis.terms |-> analysis.terms[i].term])

\* the key under which a candidate is remembered as researched
ResearchKey(c) == lower(strip(c))

\* the first candidate not researched yet, or None
RECURSIVE FirstNew(_, _)
FirstNew(candidates, researched) ==
    IF candidates = <<>> THEN None
    ELSE IF ResearchKey(Head(candidates)) \notin researched
         THEN Head(candidates)
         ELSE FirstNew(Tail(candidates), researched)

\* mutant of DeepResearch: the interval since the last research is not checked
DeepResearch_NoThrottle ==
    /\ pc = "dr"
    /\ LET now == clock
           target == FirstNew(Candidates(call.analysis), deep_research_cache)
       IN  IF target # None
           THEN /\ last_deep_research_time' = now
                /\ deep_research_cache' = deep_research_cache \cup {ResearchKey(target)}
                /\ call' = [call EXCEPT !.target = target]
                /\ pc' = "dr_call"
                /\ UNCHANGED <<sched, invocations>>
           ELSE /\ Return(TRUE)
                /\ UNCHANGED <<last_deep_research_time, deep_research_cache>>
    /\ UNCHANGED <<limits, peer, cache_calls, registry, ctlVars, clock, sttVars, term_cache, storeVars, sinkVars, jobVars>>

\* mutant of DeepResearch: the target is not remembered as researched
DeepResearch_NotRemembered ==
    /\ pc = "dr"
    /\ LET now == clock
           target == FirstNew(Candidates(call.analysis), deep_research_cache)
       IN  IF now - last_deep_research_time >= DEEP_RESEARCH_INTERVAL /\ target # None
           THEN /\ last_deep_research_time' = now
                /\ call' = [call EXCEPT !.target = target]
                /\ pc' = "dr_call"
                /\ UNCHANGED <<sched, invocations, deep_research_cache>>
           ELSE /\ Return(TRUE)
                /\ UNCHANGED <<last_deep_research_time, deep_research_cache>>
    /\ UNCHANGED <<limits, peer, cache_calls, registry, ctlVars, clock, sttVars, term_cache, storeVars, sinkVars, jobVars>>

\* 5. throttle, candidate choice, bookkeeping; then deep_research is called
DeepResearch ==
    /\ pc = "dr"
    /\ LET now == clock
           target == FirstNew(Candidates(call.analysis), deep_research_cache)
       IN  IF now - last_deep_research_time >= DEEP_RESEARCH_INTERVAL /\ target # None
           THEN /\ last_deep_research_time' = now
                /\ deep_research_cache' = deep_research_cache \cup {ResearchKey(target)}
                /\ call' = [call EXCEPT !.target = target]
                /\ pc' = "dr_call"
                /\ UNCHANGED <<sched, invocations>>
           ELSE /\ Return(TRUE)
                /\ UNCHANGED <<last_deep_research_time, deep_research_cache>>
    /\ UNCHANGED <<limits, peer, cache_calls, registry, ctlVars, clock, sttVars, term_cache, storeVars, sinkVars, jobVars>>

\* deep_research returns a record or None
DeepResearchCall ==
    /\ pc = "dr_call"
    /\ \/ /\ strip(call.target) # <<>>
          /\ pc' = "dr_save"
          /\ UNCHANGED <<sched, call, invocations>>
       \/ Return(TRUE)
    /\ UNCHANGED <<limits, peer, cache_calls, registry, ctlVars, clock, sttVars, term_cache, deep_research_cache,
                   last_deep_research_time, storeVars, sinkVars, jobVars>>

\* _save_card of the deep_research card commits or raises
DeepResearchSave ==
    /\ pc = "dr_save"
    /\ LET row == CardRow("deep_research", call.target, "concept", call.ts, "scheduler")
       IN  \/ /\ cards' = Append(cards, row)
              /\ call' = [call EXCEPT !.saved = row]
              /\ pc' = "dr_send"
              /\ UNCHANGED <<sched, invocations>>
           \/ /\ Return(FALSE)
              /\ UNCHANGED cards
    /\ UNCHANGED <<limits, peer, cache_calls, registry, ctlVars, clock, sttVars, term_cache, deep_research_cache,
                   last_deep_research_time, takeaways, lecture, sinkVars, jobVars>>

DeepResearchSend ==
    /\ pc = "dr_send"
    /\ send_json(Event("deep_research_result", call.saved, "scheduler"))
    /\ Return(TRUE)
    /\ UNCHANGED <<limits, peer, cache_calls, registry, ctlVars, clock, sttVars, term_cache, deep_research_cache,
                   last_deep_research_time, storeVars, jobVars>>

(***************************************************************************)
(* handle_deep_research: the user-triggered job                            *)
(***************************************************************************)
\* the controller reads a deep_research message and creates the task
DeepResearchMessage ==
    /\ ctl.pc = "receive"
    /\ jobs_started < limits.jobs
    /\ job.pc = "none"
    /\ \E selected_text \in SelectedTexts :
         job' = [NoJob EXCEPT !.pc = "start", !.selected_text = selected_text,
                              !.session = ctl.session,
                              !.start_time = stt.start_time]
    /\ jobs_started' = jobs_started + 1
    /\ frames' = Append(frames, "deep_research")
    /\ UNCHANGED <<limits, peer, cache_calls, registry, ctl, audio, clock, sttVars, schedVars, storeVars, sinkVars>>

\* send_json of the closure of a handle_deep_research task: the socket of a
\* handler that has returned is closed
job_send_json(event) ==
    IF job.session = ctl.session THEN send_json(event) ELSE UNCHANGED sinkVars

JobStart ==
    /\ job.pc = "start"
    /\ job_send_json(Event("deep_research_start", job.selected_text, "user"))
    /\ job' = [job EXCEPT !.pc = "call"]
    /\ UNCHANGED <<limits, peer, cache_calls, registry, ctlVars, clock, sttVars, schedVars, storeVars, jobs_started>>

\* mutant of JobCall: the job counts as a deep research of the scheduler
JobCall_CountsAsResearch ==
    /\ job.pc = "call"
    /\ \/ /\ strip(job.selected_text) # <<>>
          /\ job' = [job EXCEPT !.pc = "save",
                                !.saved = CardRow("deep_research", job.selected_text,
                                                  "concept", clock - job.start_time,
                                                  "user")]
       \/ job' = NoJob
    /\ last_deep_research_time' = clock
    /\ deep_research_cache' = deep_research_cache \cup {lower(job.selected_text)}
    /\ UNCHANGED <<limits, peer, cache_calls, registry, ctlVars, clock, sttVars, term_cache,
                   sched, pc, call, invocations, storeVars, sinkVars,
                   jobs_started>>

\* deep_research returns a record or None; the timestamp is read when
\* _save_card is called
JobCall ==
    /\ job.pc = "call"
    /\ \/ /\ strip(job.selected_text) # <<>>
          /\ job' = [job EXCEPT !.pc = "save",
                                !.saved = CardRow("deep_research", job.selected_text,
                                                  "concept", clock - job.start_time,
                                                  "user")]
       \/ job' = NoJob
    /\ UNCHANGED <<limits, peer, cache_calls, registry, ctlVars, clock, sttVars, schedVars, storeVars, sinkVars, jobs_started>>

\* mutant of JobSave: the job goes on to its send when the insert raised
JobSave_IgnoreFailure ==
    /\ job.pc = "save"
    /\ \/ /\ cards' = Append(cards, [job.saved EXCEPT !.id = FreshId])
          /\ job' = [job EXCEPT !.pc = "send", !.saved = [job.saved EXCEPT !.id = FreshId]]
       \/ /\ job' = [job EXCEPT !.pc = "send", !.saved = [job.saved EXCEPT !.id = FreshId]]
          /\ UNCHANGED cards
    /\ UNCHANGED <<limits, peer, cache_calls, registry, ctlVars, clock, sttVars, schedVars, takeaways, lecture, sinkVars,
                   jobs_started>>

\* _save_card commits or raises
JobSave ==
    /\ job.pc = "save"
    /\ \/ /\ cards' = Append(cards, [job.saved EXCEPT !.id = FreshId])
          /\ job' = [job EXCEPT !.pc = "send", !.saved = [job.saved EXCEPT !.id = FreshId]]
       \/ /\ job' = NoJob
          /\ UNCHANGED cards
    /\ UNCHANGED <<limits, peer, cache_calls, registry, ctlVars, clock, sttVars, schedVars, takeaways, lecture, sinkVars,
                   jobs_started>>

JobSend ==
    /\ job.pc = "send"
    /\ job_send_json(Event("deep_research_result", job.saved, "user"))
    /\ job' = NoJob
    /\ UNCHANGED <<limits, peer, cache_calls, registry, ctlVars, clock, sttVars, schedVars, storeVars, jobs_started>>

(***************************************************************************)
(* websocket_endpoint: the receive loop                                    *)
(***************************************************************************)
\* text frames that are not one of the four control messages, by what
\* json.loads and data.get("type") make of them
MalformedFrames == {"invalid_json", "json_array", "no_type", "unknown_type"}

\* json.loads raises JSONDecodeError
IsInvalidJson(frame) == frame = "invalid_json"

\* json.loads returns a value that has no .get (a list, str, number, None)
IsNotObject(frame) == frame = "json_array"

\* mutant of ReceiveAudio: send_audio does not look at the stop flag
ReceiveAudio_IgnoresStop ==
    /\ ctl.pc = "receive"
    /\ Len(frames) < limits.frames
    /\ frames' = Append(frames, "audio")
    /\ IF stt.paused
       THEN audio' = [audio EXCEPT !.dropped = @ + 1]
       ELSE audio' = [audio EXCEPT !.queue = @ + 1]
    /\ UNCHANGED <<limits, peer, cache_calls, registry, ctl, clock, sttVars, schedVars, storeVars, sinkVars,
                   jobVars>>

\* a binary frame: SmallestSession.send_audio
ReceiveAudio ==
    /\ ctl.pc = "receive"
    /\ Len(frames) < limits.frames
    /\ frames' = Append(frames, "audio")
    /\ IF stt.paused \/ stt.stopped
       THEN audio' = [audio EXCEPT !.dropped = @ + 1]
       ELSE audio' = [audio EXCEPT !.queue = @ + 1]
    /\ UNCHANGED <<limits, peer, cache_calls, registry, ctl, clock, sttVars, schedVars, storeVars, sinkVars,
                   jobVars>>

\* {"type": "pause"}: SmallestSession.pause
ReceivePause ==
    /\ ctl.pc = "receive"
    /\ Len(frames) < limits.frames
    /\ frames' = Append(frames, "pause")
    /\ stt' = [stt EXCEPT !.paused = TRUE]
    /\ UNCHANGED <<limits, peer, cache_calls, registry, ctl, audio, clock, loop_calls, utterance_queue,
                   interim_queue, received, schedVars, storeVars, sinkVars, jobVars>>

\* {"type": "resume"}: SmallestSession.resume
ReceiveResume ==
    /\ ctl.pc = "receive"
    /\ Len(frames) < limits.frames
    /\ frames' = Append(frames, "resume")
    /\ stt' = [stt EXCEPT !.paused = FALSE]
    /\ UNCHANGED <<limits, peer, cache_calls, registry, ctl, audio, clock, loop_calls, utterance_queue,
                   interim_queue, received, schedVars, storeVars, sinkVars, jobVars>>

\* any other text frame: JSONDecodeError is caught and the loop continues; a
\* parsed value without .get raises AttributeError, which leaves the loop
\* through the outer except; an object with no or an unknown type matches no
\* branch
ReceiveMalformed ==
    /\ ctl.pc = "receive"
    /\ Len(frames) < limits.frames
    /\ \E frame \in MalformedFrames :
         /\ frames' = Append(frames, frame)
         /\ IF ~IsInvalidJson(frame) /\ IsNotObject(frame)
            THEN ctl' = [ctl EXCEPT !.pc = "teardown"]
            ELSE UNCHANGED ctl
    /\ UNCHANGED <<limits, peer, cache_calls, registry, audio, clock, sttVars, schedVars, storeVars, sinkVars,
                   jobVars>>

\* the client disconnects or receive() raises: break
ReceiveDisconnect ==
    /\ ctl.pc = "receive"
    /\ frames' = Append(frames, "disconnect")
    /\ ctl' = [ctl EXCEPT !.pc = "teardown"]
    /\ socket' = "closed"
    /\ UNCHANGED <<limits, peer, cache_calls, registry, audio, clock, sttVars, schedVars, storeVars, outbound,
                   jobVars>>

(***************************************************************************)
(* websocket_endpoint: end_session, teardown, accept                       *)
(***************************************************************************)
\* what the summary LLM may answer with
SummaryResponses == { <<"f", " ">> }

\* _finalize_lecture: the row after the update, which matches no row when
\* the lecture is not in the table
Finalize(row, duration_seconds, summary, transcript) ==
    IF ~row.present THEN row
    ELSE [row EXCEPT !.status = "completed",
                     !.duration_seconds = duration_seconds,
                     !.summary = IF summary # None THEN summary ELSE @,
                     !.transcript = IF transcript # None THEN transcript ELSE @]

\* {"type": "end_session"}: the duration is read and generate_summary is
\* called on the transcript
ReceiveEndSession ==
    /\ ctl.pc = "receive"
    /\ frames' = Append(frames, "end_session")
    /\ ctl' = [ctl EXCEPT !.pc = "end_summary",
                          !.duration = elapsed_seconds,
                          !.end_duration = elapsed_seconds,
                          !.transcript = stt.full_transcript,
                          !.ended = TRUE]
    /\ UNCHANGED <<limits, peer, cache_calls, registry, audio, clock, sttVars, schedVars, storeVars, sinkVars,
                   jobVars>>

\* generate_summary returns None for a blank transcript or a failed call,
\* else the stripped answer; _finalize_lecture is called with the transcript
\* as it is now
EndSummary ==
    /\ ctl.pc = "end_summary"
    /\ \E final_summary \in
            {None} \cup (IF strip(ctl.transcript) = <<>> THEN {}
                         ELSE {strip(r) : r \in SummaryResponses}) :
         ctl' = [ctl EXCEPT !.pc = "end_finalize",
                            !.final_summary = final_summary,
                            !.transcript = stt.full_transcript]
    /\ UNCHANGED <<limits, peer, cache_calls, registry, frames, audio, clock, sttVars, schedVars, storeVars,
                   sinkVars, jobVars>>

\* _finalize_lecture commits or raises (the outer except logs it)
EndFinalize ==
    /\ ctl.pc = "end_finalize"
    /\ \/ /\ lecture' = Finalize(lecture, ctl.duration, ctl.final_summary,
                                  ctl.transcript)
          /\ ctl' = [ctl EXCEPT !.end_finalize = "committed",
                                !.pc = IF ctl.final_summary # None
                                       THEN "end_send" ELSE "teardown"]
       \/ /\ ctl' = [ctl EXCEPT !.end_finalize = "raised", !.pc = "teardown"]
          /\ UNCHANGED lecture
    /\ UNCHANGED <<limits, peer, cache_calls, registry, frames, audio, clock, sttVars, schedVars, cards,
                   takeaways, sinkVars, jobVars>>

\* the final summary_update; then break
EndSend ==
    /\ ctl.pc = "end_send"
    /\ send_json(Event("summary_update", ctl.final_summary, "controller"))
    /\ ctl' = [ctl EXCEPT !.pc = "teardown"]
    /\ UNCHANGED <<limits, peer, cache_calls, registry, frames, audio, clock, sttVars, schedVars, storeVars,
                   jobVars>>

\* mutant of Teardown: the duration is not read again
Teardown_StaleDuration ==
    /\ ctl.pc = "teardown"
    /\ ctl' = [ctl EXCEPT !.pc = "teardown_finalize",
                          !.interim_task = "cancelled",
                          !.transcript_save_task = "cancelled",
                          !.transcript = stt.full_transcript]
    /\ pc' = "cancelled"
    /\ call' = NoCall
    /\ UNCHANGED <<limits, peer, cache_calls, registry, frames, audio, clock, sttVars, term_cache,
                   deep_research_cache, last_deep_research_time, sched,
                   invocations, storeVars, sinkVars, jobVars>>

\* mutant of Teardown: transcript_save_task is not cancelled
Teardown_SaverRuns ==
    /\ ctl.pc = "teardown"
    /\ ctl' = [ctl EXCEPT !.pc = "teardown_finalize",
                          !.interim_task = "cancelled",
                          !.duration = elapsed_seconds,
                          !.transcript = stt.full_transcript]
    /\ pc' = "cancelled"
    /\ call' = NoCall
    /\ UNCHANGED <<limits, peer, cache_calls, registry, frames, audio, clock, sttVars, term_cache,
                   deep_research_cache, last_deep_research_time, sched,
                   invocations, storeVars, sinkVars, jobVars>>

\* finally: session_active = False, the three tasks are cancelled (a
\* cancelled task does not get past the await it is suspended in), and
\* _finalize_lecture is called with the duration and transcript read now
Teardown ==
    /\ ctl.pc = "teardown"
    /\ ctl' = [ctl EXCEPT !.pc = "teardown_finalize",
                          !.interim_task = "cancelled",
                          !.transcript_save_task = "cancelled",
                          !.duration = elapsed_seconds,
                          !.transcript = stt.full_transcript]
    /\ pc' = "cancelled"
    /\ call' = NoCall
    /\ UNCHANGED <<limits, peer, cache_calls, registry, frames, audio, clock, sttVars, term_cache,
                   deep_research_cache, last_deep_research_time, sched,
                   invocations, storeVars, sinkVars, jobVars>>

\* mutant of TeardownFinalize: drop_session_cache is not called
TeardownFinalize_KeepsCache ==
    /\ ctl.pc = "teardown_finalize"
    /\ \/ /\ lecture' = Finalize(lecture, ctl.duration, None, ctl.transcript)
          /\ ctl' = [ctl EXCEPT !.finalize = "committed", !.pc = "closed"]
       \/ /\ ctl' = [ctl EXCEPT !.finalize = "raised", !.pc = "closed"]
          /\ UNCHANGED lecture
    /\ stt' = [stt EXCEPT !.stopped = TRUE]
    /\ audio' = [audio EXCEPT !.sentinel = IF stt.stopped THEN @ ELSE TRUE]
    /\ term_cache' = IF IsLive(peer.ctl) THEN term_cache ELSE <<>>
    /\ registry' = [registry EXCEPT !._sessions = @ \ {lecture_id}]
    /\ socket' = "closed"
    /\ UNCHANGED <<limits, peer, cache_calls, frames, clock, loop_calls, utterance_queue,
                   interim_queue, received, deep_research_cache,
                   last_deep_research_time, sched, pc, call, invocations,
                   cards, takeaways, outbound, jobVars>>

\* _finalize_lecture commits or raises (logged); then close_session pops the
\* SmallestSession and, if it was still registered, stop() sets the stop flag
\* and puts None on the audio queue; drop_session_cache forgets the cache
\* (another live handler keeps the TermCache it holds), and the handler
\* returns, which closes the socket
TeardownFinalize ==
    /\ ctl.pc = "teardown_finalize"
    /\ \/ /\ lecture' = Finalize(lecture, ctl.duration, None, ctl.transcript)
          /\ ctl' = [ctl EXCEPT !.finalize = "committed", !.pc = "closed"]
       \/ /\ ctl' = [ctl EXCEPT !.finalize = "raised", !.pc = "closed"]
          /\ UNCHANGED lecture
    /\ stt' = [stt EXCEPT !.stopped = TRUE]
    /\ audio' = [audio EXCEPT !.sentinel = IF stt.stopped THEN @ ELSE TRUE]
    /\ term_cache' = IF IsLive(peer.ctl) THEN term_cache ELSE <<>>
    /\ registry' = Dropped(registry)
    /\ socket' = "closed"
    /\ UNCHANGED <<limits, peer, cache_calls, frames, clock, loop_calls, utterance_queue,
                   interim_queue, received, deep_research_cache,
                   last_deep_research_time, sched, pc, call, invocations,
                   cards, takeaways, outbound, jobVars>>

\* a WebSocket is accepted for the lecture after the earlier handlers have
\* returned: get_or_create_session and get_session_cache find nothing and
\* create and register a SmallestSession and a TermCache, and the three tasks
\* are created (an accept beside a live handler is AcceptConcurrent)
Accept ==
    /\ ctl.pc = "closed"
    /\ ~IsLive(peer.ctl)
    /\ ctl.session < limits.sessions
    /\ registry' = Registered(registry)
    /\ ctl' = NewHandler(ctl.session + 1)
    /\ socket' = "open"
    /\ stt' = NewSmallestSession(clock)
    /\ loop_calls' = <<>>
    /\ utterance_queue' = <<>>
    /\ interim_queue' = <<>>
    /\ audio' = NoAudio
    /\ term_cache' = <<>>
    /\ deep_research_cache' = {}
    /\ last_deep_research_time' = 0
    /\ sched' = NewScheduler(clock)
    /\ pc' = "idle"
    /\ call' = NoCall
    /\ UNCHANGED <<limits, peer, cache_calls, frames, clock, received, invocations, storeVars,
                   outbound, jobVars>>

\* a second WebSocket is accepted for the lecture while the first handler
\* has not returned: get_or_create_session and get_session_cache return the
\* SmallestSession and the TermCache of the first, and the handler creates
\* its own three tasks and its own locals
AcceptConcurrent ==
    /\ IsLive(ctl)
    /\ peer = NoPeer
    /\ ctl.session < limits.handlers
    /\ peer' = Locals
    /\ registry' = Registered(registry)
    /\ ctl' = NewHandler(ctl.session + 1)
    /\ socket' = "open"
    /\ outbound' = <<>>
    /\ deep_research_cache' = {}
    /\ last_deep_research_time' = 0
    /\ sched' = NewScheduler(clock)
    /\ pc' = "idle"
    /\ call' = NoCall
    /\ UNCHANGED <<limits, cache_calls, frames, audio, clock, sttVars,
                   term_cache, invocations, storeVars, jobVars>>

\* the event loop runs a task of the lecture's other handler next
Switch ==
    /\ IsLive(peer.ctl)
    /\ peer' = Locals
    /\ ctl' = peer.ctl
    /\ sched' = peer.sched
    /\ pc' = peer.pc
    /\ call' = peer.call
    /\ deep_research_cache' = peer.deep_research_cache
    /\ last_deep_research_time' = peer.last_deep_research_time
    /\ socket' = peer.socket
    /\ outbound' = peer.outbound
    /\ UNCHANGED <<limits, cache_calls, registry, frames, audio, clock, sttVars,
                   term_cache, invocations, storeVars, jobVars>>

(***************************************************************************)
(* periodic_transcript_save                                                *)
(***************************************************************************)
\* asyncio.sleep(3) returns: with a non-empty transcript
\* _save_transcript_chunk is called with the transcript as it is now, else
\* the task sleeps again
PeriodicTranscriptSave ==
    /\ ctl.transcript_save_task = "sleep"
    /\ ctl' = IF stt.full_transcript # <<>>
              THEN [ctl EXCEPT !.transcript_save_task = "save",
                               !.saving = stt.full_transcript]
              ELSE ctl
    /\ UNCHANGED <<limits, peer, cache_calls, registry, frames, audio, clock, sttVars, schedVars,
                   storeVars, sinkVars, jobVars>>

\* _save_transcript_chunk commits (the update matches no row when the lecture
\* is not in the table) or raises, which is logged; the task sleeps again
SaveTranscriptChunk ==
    /\ ctl.transcript_save_task = "save"
    /\ \/ lecture' = IF ~lecture.present THEN lecture
                     ELSE [lecture EXCEPT !.transcript = ctl.saving]
       \/ UNCHANGED lecture
    /\ ctl' = [ctl EXCEPT !.transcript_save_task = "sleep", !.saving = <<>>]
    /\ UNCHANGED <<limits, peer, cache_calls, registry, frames, audio, clock, sttVars, schedVars,
                   cards, takeaways, sinkVars, jobVars>>

(***************************************************************************)
(* drain_interim and SmallestSession._sender                               *)
(***************************************************************************)
\* mutant of DrainInterim: the newest item of the queue is taken
DrainInterim_Newest ==
    /\ ctl.interim_task = "running"
    /\ interim_queue # <<>>
    /\ LET item == interim_queue[Len(interim_queue)]
       IN  IF item.is_final
           THEN send_json(Event("transcript_final",
                                [text |-> item.text,
                                 timestamp_seconds |-> item.timestamp_seconds],
                                "drain"))
           ELSE send_json(Event("transcript_interim", [text |-> item.text], "drain"))
    /\ interim_queue' = SubSeq(interim_queue, 1, Len(interim_queue) - 1)
    /\ UNCHANGED <<limits, peer, cache_calls, registry, ctlVars, clock, stt, loop_calls, utterance_queue,
                   received, schedVars, storeVars, jobVars>>

\* drain_interim: one item of the interim queue is sent to the client
DrainInterim ==
    /\ ctl.interim_task = "running"
    /\ interim_queue # <<>>
    /\ LET item == Head(interim_queue)
       IN  IF item.is_final
           THEN send_json(Event("transcript_final",
                                [text |-> item.text,
                                 timestamp_seconds |-> item.timestamp_seconds],
                                "drain"))
           ELSE send_json(Event("transcript_interim", [text |-> item.text], "drain"))
    /\ interim_queue' = Tail(interim_queue)
    /\ UNCHANGED <<limits, peer, cache_calls, registry, ctlVars, clock, stt, loop_calls, utterance_queue,
                   received, schedVars, storeVars, jobVars>>

\* _sender: get() returns the oldest item of the audio queue; on a chunk
\* the sender goes on to send it, on None it sends the finalize frame and
\* returns, which ends _run_async and the thread
SenderGet ==
    /\ stt.thread = "running"
    /\ audio.sender = "get"
    /\ \/ /\ audio.queue > 0
          /\ audio' = [audio EXCEPT !.queue = @ - 1, !.sender = "send"]
          /\ UNCHANGED stt
       \/ /\ audio.queue = 0
          /\ audio.sentinel
          /\ audio' = [audio EXCEPT !.sentinel = FALSE, !.finalize_sent = TRUE,
                                    !.sender = "returned"]
          /\ stt' = [stt EXCEPT !.thread = "ended"]
    /\ UNCHANGED <<limits, peer, cache_calls, registry, ctl, frames, clock, loop_calls, utterance_queue,
                   interim_queue, received, schedVars, storeVars, sinkVars,
                   jobVars>>

\* _sender: the chunk is sent and the loop tests the stop flag: when it is
\* set the sender returns, which ends _run_async and the thread, else it
\* waits in get() again
SenderSend ==
    /\ stt.thread = "running"
    /\ audio.sender = "send"
    /\ audio' = [audio EXCEPT !.upstream = @ + 1,
                              !.sender = IF stt.stopped THEN "returned" ELSE "get"]
    /\ stt' = [stt EXCEPT !.thread = IF stt.stopped THEN "ended" ELSE @]
    /\ UNCHANGED <<limits, peer, cache_calls, registry, ctl, frames, clock, loop_calls, utterance_queue,
                   interim_queue, received, schedVars, storeVars, sinkVars,
                   jobVars>>

\* _sender: websocket.send(chunk) raises; the sender logs it and returns,
\* _run_async cancels the receiver and the thread ends
SenderFails ==
    /\ stt.thread = "running"
    /\ audio.sender = "send"
    /\ audio' = [audio EXCEPT !.sender = "returned"]
    /\ stt' = [stt EXCEPT !.thread = "ended"]
    /\ UNCHANGED <<limits, peer, cache_calls, registry, ctl, frames, clock, loop_calls, utterance_queue,
                   interim_queue, received, schedVars, storeVars, sinkVars,
                   jobVars>>

\* _receiver: the upstream closes the connection or it is lost; the
\* `async for` ends, _run_async cancels the sender and the thread ends
ReceiverEnds ==
    /\ stt.thread = "running"
    /\ audio' = [audio EXCEPT !.sender = "cancelled"]
    /\ stt' = [stt EXCEPT !.thread = "ended"]
    /\ UNCHANGED <<limits, peer, cache_calls, registry, ctl, frames, clock, loop_calls, utterance_queue,
                   interim_queue, received, schedVars, storeVars, sinkVars,
                   jobVars>>

(***************************************************************************)
(* routers/lectures.py                                                     *)
(***************************************************************************)
\* DELETE /api/lectures/{id}: the row is deleted and the relationships'
\* cascade deletes the cards and takeaways the lecture has
DeleteLecture ==
    /\ lecture.present
    /\ lecture' = [lecture EXCEPT !.present = FALSE]
    /\ cards' = <<>>
    /\ takeaways' = <<>>
    /\ UNCHANGED <<limits, peer, cache_calls, registry, ctlVars, clock, sttVars, schedVars,
                   sinkVars, jobVars>>

(***************************************************************************)
(* Calls of the TermCache API on a cache of CacheCapacity entries          *)
(***************************************************************************)
CacheCall(op, term) ==
    [op |-> op, key |-> _normalise(term), hit |-> contains(term_cache, term)]

CacheUnchanged ==
    UNCHANGED <<limits, peer, registry, ctlVars, clock, sttVars, deep_research_cache,
                last_deep_research_time, sched, pc, call, invocations,
                storeVars, sinkVars, jobVars>>

\* cache.put(term, value)
CachePut ==
    /\ Len(cache_calls) < CacheMaxCalls
    /\ \E term \in CacheTerms :
         /\ term_cache' = put(term_cache, term, [term |-> term], CacheCapacity)
         /\ cache_calls' = Append(cache_calls, CacheCall("put", term))
    /\ CacheUnchanged

\* cache.get(term)
CacheGet ==
    /\ Len(cache_calls) < CacheMaxCalls
    /\ \E term \in CacheTerms :
         /\ term_cache' = get(term_cache, term).cache
         /\ cache_calls' = Append(cache_calls, CacheCall("get", term))
    /\ CacheUnchanged

\* cache.contains(term): the cache is read
CacheContains ==
    /\ Len(cache_calls) < CacheMaxCalls
    /\ \E term \in CacheTerms :
         cache_calls' = Append(cache_calls, CacheCall("contains", term))
    /\ UNCHANGED term_cache
    /\ CacheUnchanged

\* cache.filter_new(terms): contains is called on every term
CacheFilterNew ==
    /\ Len(cache_calls) < CacheMaxCalls
    /\ \E terms \in CacheTermLists :
         cache_calls' = Append(cache_calls, CacheCall("filter_new", terms[1]))
    /\ UNCHANGED term_cache
    /\ CacheUnchanged

(***************************************************************************)
(* Specification                                                           *)
(***************************************************************************)
\* the scheduler and its pipeline, fed by the STT receiver
Init ==
    /\ Start
    /\ limits = [results |-> MaxResults, payloads |-> UtterancePayloads,
                 invocations |-> MaxInvocations, jobs |-> 0,
                 frames |-> 0, sessions |-> 1,
                 write_failures |-> FALSE, audio |-> FALSE,
                 responses |-> LlmResponses, ticks |-> MaxTicks,
                 handlers |-> 1]

Pipeline ==
    \/ Analyze
    \/ Topic
    \/ Takeaway
    \/ TakeawaySend
    \/ Summary
    \/ SummarySave
    \/ Terms
    \/ Define
    \/ Cards
    \/ CardSend
    \/ DeepResearch
    \/ DeepResearchCall
    \/ DeepResearchSave
    \/ DeepResearchSend

Next ==
    \/ Tick
    \/ Receiver
    \/ LoopCallback
    \/ Dequeue
    \/ Timeout
    \/ Pipeline

Spec == Init /\ [][Next]_vars

\* the STT receiver alone, on every kind of payload
InitStt ==
    /\ Start
    /\ limits = [results |-> SttMaxResults, payloads |-> SttPayloads,
                 invocations |-> 0, jobs |-> 0,
                 frames |-> 0, sessions |-> 1,
                 write_failures |-> FALSE, audio |-> FALSE,
                 responses |-> LlmResponses, ticks |-> MaxTicks,
                 handlers |-> 1]

NextStt ==
    \/ Tick
    \/ Receiver
    \/ LoopCallback

SpecStt == InitStt /\ [][NextStt]_vars

\* a user-triggered deep research beside one pipeline invocation
InitJob ==
    /\ Start
    /\ limits = [results |-> JobMaxResults, payloads |-> UtterancePayloads,
                 invocations |-> JobMaxInvocations, jobs |-> MaxUserJobs,
                 frames |-> 0, sessions |-> 1,
                 write_failures |-> FALSE, audio |-> FALSE,
                 responses |-> LlmResponses, ticks |-> MaxTicks,
                 handlers |-> 1]

UserJob ==
    \/ DeepResearchMessage
    \/ JobStart
    \/ JobCall
    \/ JobSave
    \/ JobSend

NextJob ==
    \/ Next
    \/ UserJob

SpecJob == InitJob /\ [][NextJob]_vars

\* the scheduler under fair scheduling: the wall clock advances, the event
\* loop runs its callbacks and resumes the scheduler task whenever the awaited
\* dequeue, time-out, LLM call, store write or socket write has completed
InitRetry ==
    /\ Start
    /\ limits = [results |-> RetryMaxResults, payloads |-> OneUtterancePayload,
                 invocations |-> RetryMaxInvocations, jobs |-> 0,
                 frames |-> 0, sessions |-> 1,
                 write_failures |-> FALSE, audio |-> FALSE,
                 responses |-> LlmResponses, ticks |-> MaxTicks,
                 handlers |-> 1]

SpecRetry ==
    /\ InitRetry
    /\ [][Next]_vars
    /\ WF_vars(Tick)
    /\ WF_vars(LoopCallback \/ Dequeue \/ Timeout \/ Pipeline)

\* one WebSocket session from its accept to the return of the handler: the
\* receive loop, end_session, disconnect and teardown beside the session's
\* tasks
InitCtl ==
    /\ Start
    /\ limits = [results |-> CtlMaxResults, payloads |-> OneUtterancePayload,
                 invocations |-> CtlMaxInvocations, jobs |-> 0,
                 frames |-> CtlMaxFrames, sessions |-> 1,
                 write_failures |-> FALSE, audio |-> FALSE,
                 responses |-> {FullLlmResponse}, ticks |-> CtlMaxTicks,
                 handlers |-> 1]

Controller ==
    \/ ReceiveMalformed
    \/ ReceiveDisconnect
    \/ ReceiveEndSession
    \/ EndSummary
    \/ EndFinalize
    \/ EndSend
    \/ Teardown
    \/ TeardownFinalize

NextCtl ==
    \/ Next
    \/ Controller

SpecCtl == InitCtl /\ [][NextCtl]_vars

\* the receive loop, end_session, disconnect and teardown beside a
\* user-triggered deep research, without the scheduler
InitCtlJob ==
    /\ Start
    /\ limits = [results |-> CtlMaxResults, payloads |-> OneUtterancePayload,
                 invocations |-> 0, jobs |-> CtlMaxUserJobs,
                 frames |-> CtlMaxFrames, sessions |-> 1,
                 write_failures |-> FALSE, audio |-> FALSE,
                 responses |-> {FullLlmResponse}, ticks |-> CtlMaxTicks,
                 handlers |-> 1]

NextCtlJob ==
    \/ Tick
    \/ Receiver
    \/ LoopCallback
    \/ DrainInterim
    \/ UserJob
    \/ Controller

SpecCtlJob == InitCtlJob /\ [][NextCtlJob]_vars

\* one WebSocket session whose socket writes may start to fail
InitWrite ==
    /\ Start
    /\ limits = [results |-> CtlMaxResults, payloads |-> OneUtterancePayload,
                 invocations |-> CtlMaxInvocations, jobs |-> 0,
                 frames |-> CtlMaxFrames, sessions |-> 1,
                 write_failures |-> TRUE, audio |-> FALSE,
                 responses |-> {FullLlmResponse}, ticks |-> CtlMaxTicks,
                 handlers |-> 1]

SpecWrite == InitWrite /\ [][NextCtl]_vars

\* audio, pause and resume: the audio path to the upstream and the transcript
\* path back to the client, without the scheduler
InitPause ==
    /\ Start
    /\ limits = [results |-> PauseMaxResults, payloads |-> FinalAndInterimPayloads,
                 invocations |-> 0, jobs |-> 0,
                 frames |-> PauseMaxFrames, sessions |-> 1,
                 write_failures |-> FALSE, audio |-> TRUE,
                 responses |-> {}, ticks |-> PauseMaxTicks,
                 handlers |-> 1]

NextPause ==
    \/ Tick
    \/ ReceiveAudio
    \/ ReceivePause
    \/ ReceiveResume
    \/ SenderGet
    \/ SenderSend
    \/ Receiver
    \/ LoopCallback
    \/ DrainInterim

SpecPause == InitPause /\ [][NextPause]_vars

\* the audio path with two WebSockets open on the lecture: one handler
\* returns and stops the SmallestSession while the other still receives
InitAudio ==
    /\ Start
    /\ limits = [results |-> AudioMaxResults, payloads |-> FinalAndInterimPayloads,
                 invocations |-> 0, jobs |-> 0,
                 frames |-> AudioMaxFrames, sessions |-> 1,
                 write_failures |-> FALSE, audio |-> TRUE,
                 responses |-> {}, ticks |-> AudioMaxTicks,
                 handlers |-> MaxHandlers]

NextAudio ==
    \/ NextPause
    \/ AcceptConcurrent
    \/ Switch
    \/ ReceiveDisconnect
    \/ Teardown
    \/ TeardownFinalize

SpecAudio == InitAudio /\ [][NextAudio]_vars

\* the scheduler on utterances that are longer together than the context
\* tail of a pipeline
InitContext ==
    /\ Start
    /\ limits = [results |-> ContextMaxResults, payloads |-> ContextPayloads,
                 invocations |-> ContextMaxInvocations, jobs |-> 0,
                 frames |-> 0, sessions |-> 1,
                 write_failures |-> FALSE, audio |-> FALSE,
                 responses |-> {FullLlmResponse}, ticks |-> ContextMaxTicks,
                 handlers |-> 1]

SpecContext == InitContext /\ [][Next]_vars

\* two WebSockets open on the lecture, each handler with its scheduler; of a
\* pipeline invocation the run follows the analysis call and no later stage
InitShared ==
    /\ Start
    /\ limits = [results |-> SharedMaxResults, payloads |-> OneUtterancePayload,
                 invocations |-> SharedMaxInvocations, jobs |-> 0,
                 frames |-> 0, sessions |-> 1,
                 write_failures |-> FALSE, audio |-> FALSE,
                 responses |-> {FullLlmResponse}, ticks |-> SharedMaxTicks,
                 handlers |-> MaxHandlers]

NextShared ==
    \/ Tick
    \/ Receiver
    \/ LoopCallback
    \/ Dequeue
    \/ Timeout
    \/ Analyze
    \/ AcceptConcurrent
    \/ Switch
    \/ ReceiveDisconnect
    \/ Teardown
    \/ TeardownFinalize

SpecShared == InitShared /\ [][NextShared]_vars

\* the audio path with an upstream that fails: the connection does not
\* open (start() returns all the same and the session is registered), a
\* send raises, or the connection is closed from the other side
InitUpstream ==
    /\ \E thread \in {"running", "ended"} :
         StartWith([NewSmallestSession(StartEpoch) EXCEPT !.thread = thread],
                   NewLecture)
    /\ limits = [results |-> UpstreamMaxResults, payloads |-> FinalAndInterimPayloads,
                 invocations |-> 0, jobs |-> 0,
                 frames |-> UpstreamMaxFrames, sessions |-> 1,
                 write_failures |-> FALSE, audio |-> TRUE,
                 responses |-> {}, ticks |-> UpstreamMaxTicks,
                 handlers |-> 1]

NextUpstream ==
    \/ NextPause
    \/ SenderFails
    \/ ReceiverEnds

SpecUpstream == InitUpstream /\ [][NextUpstream]_vars

\* a TermCache of CacheCapacity entries under any calls of its API
NextCache ==
    \/ CachePut
    \/ CacheGet
    \/ CacheContains
    \/ CacheFilterNew

SpecCache == Init /\ [][NextCache]_vars

\* the scheduler of a WebSocket opened on a lecture id that may have no row,
\* beside the CRUD router deleting the lecture
InitStore ==
    /\ \E present \in BOOLEAN :
         StartWith(NewSmallestSession(StartEpoch),
                   [NewLecture EXCEPT !.present = present])
    /\ limits = [results |-> StoreMaxResults, payloads |-> OneUtterancePayload,
                 invocations |-> StoreMaxInvocations, jobs |-> 0,
                 frames |-> 0, sessions |-> 1,
                 write_failures |-> FALSE, audio |-> FALSE,
                 responses |-> {FullLlmResponse}, ticks |-> StoreMaxTicks,
                 handlers |-> 1]

NextStore ==
    \/ Next
    \/ DeleteLecture

SpecStore == InitStore /\ [][NextStore]_vars

\* the scheduler's buffer under fair scheduling, with blank utterances in
\* the queue: the session stays active (no end_session, no disconnect)
InitBuffer ==
    /\ Start
    /\ limits = [results |-> BufferMaxResults, payloads |-> BufferPayloads,
                 invocations |-> BufferMaxInvocations, jobs |-> 0,
                 frames |-> 0, sessions |-> 1,
                 write_failures |-> FALSE, audio |-> FALSE,
                 responses |-> {FullLlmResponse}, ticks |-> MaxTicks,
                 handlers |-> 1]

SpecBuffer ==
    /\ InitBuffer
    /\ [][Next]_vars
    /\ WF_vars(Tick)
    /\ WF_vars(LoopCallback \/ Dequeue \/ Timeout \/ Pipeline)

\* the transcript writers of one session: the periodic saver, end_session and
\* the teardown, beside the receiver that extends the transcript; without the
\* scheduler
InitSaver ==
    /\ Start
    /\ limits = [results |-> SaverMaxResults, payloads |-> UtterancePayloads,
                 invocations |-> 0, jobs |-> 0,
                 frames |-> SaverMaxFrames, sessions |-> 1,
                 write_failures |-> FALSE, audio |-> FALSE,
                 responses |-> {}, ticks |-> SaverMaxTicks,
                 handlers |-> 1]

NextSaver ==
    \/ Tick
    \/ Receiver
    \/ LoopCallback
    \/ PeriodicTranscriptSave
    \/ SaveTranscriptChunk
    \/ Controller

SpecSaver == InitSaver /\ [][NextSaver]_vars

\* the handlers of one lecture and the two registries: up to two WebSockets
\* open at a time, and a new one after they have closed; without the scheduler
InitRegistry ==
    /\ Start
    /\ limits = [results |-> RegistryMaxResults, payloads |-> OneUtterancePayload,
                 invocations |-> 0, jobs |-> 0,
                 frames |-> RegistryMaxFrames, sessions |-> RegistryMaxSessions,
                 write_failures |-> FALSE, audio |-> FALSE,
                 responses |-> {}, ticks |-> RegistryMaxTicks,
                 handlers |-> MaxHandlers]

NextRegistry ==
    \/ Tick
    \/ Receiver
    \/ LoopCallback
    \/ Controller
    \/ Accept
    \/ AcceptConcurrent
    \/ Switch

SpecRegistry == InitRegistry /\ [][NextRegistry]_vars

\* the same, with the client connecting again after the handler has returned
InitReopen ==
    /\ Start
    /\ limits = [results |-> CtlMaxResults, payloads |-> OneUtterancePayload,
                 invocations |-> CtlMaxInvocations, jobs |-> 0,
                 frames |-> CtlMaxFrames, sessions |-> ReopenMaxSessions,
                 write_failures |-> FALSE, audio |-> FALSE,
                 responses |-> {FullLlmResponse}, ticks |-> CtlMaxTicks,
                 handlers |-> 1]

NextReopen ==
    \/ NextCtl
    \/ Accept

SpecReopen == InitReopen /\ [][NextReopen]_vars

(***************************************************************************)
(* Properties                                                              *)
(***************************************************************************)
\* the texts of the final, non-empty STT results among `payloads`, in order
FinalTexts(payloads) ==
    LET finals == SelectSeq(payloads,
                     LAMBDA p : p.is_final # "false" /\ p.transcript # <<>>)
    IN  [i \in DOMAIN finals |-> finals[i].transcript]

AutoDefineCards == {i \in DOMAIN cards : cards[i].type = "auto_define"}

\* C2: no two auto_define cards persisted for the session have the same
\* normalized term.
C2_NoDuplicateAutoDefine ==
    \A i, j \in AutoDefineCards :
        i # j => _normalise(cards[i].term) # _normalise(cards[j].term)

\* C3: for every auto_define card the scheduler produces, the normalized term
\* is absent from the term cache immediately before its record is processed
\* (put + persist) and present immediately after.
C3_AbsentBeforePresentAfter ==
    [][(pc = "cards" /\ cards' # cards) =>
          /\ ~contains(term_cache, Head(call.results).term)
          /\ contains(term_cache', Head(call.results).term)]_vars

SchedulerResearchCards ==
    {i \in DOMAIN cards : cards[i].type = "deep_research" /\ cards[i].by = "scheduler"}

\* C5: no two deep_research cards produced by the scheduler have the same
\* normalized term (trim, lowercase, collapse internal whitespace).
C5_NoDuplicateResearch ==
    \A i, j \in SchedulerResearchCards :
        i # j => _normalise(cards[i].term) # _normalise(cards[j].term)

EventsOfType(type) == {i \in DOMAIN outbound : outbound[i].type = type}

\* C6: every new_card, new_takeaway and deep_research_result event that was
\* sent carries an artifact whose insert has committed in the store.
C6_EventsCarryPersisted ==
    \A i \in DOMAIN outbound :
        /\ outbound[i].type \in {"new_card", "deep_research_result"} =>
               outbound[i].payload \in Range(cards)
        /\ outbound[i].type = "new_takeaway" =>
               outbound[i].payload \in Range(takeaways)

\* C6 witness: the scheduler has sent a takeaway, a card and its research
\* result, and the user's job has sent its research result
C6_Witness ==
    /\ EventsOfType("new_takeaway") # {}
    /\ EventsOfType("new_card") # {}
    /\ \E i, j \in EventsOfType("deep_research_result") :
          outbound[i].by = "scheduler" /\ outbound[j].by = "user"

\* C7: when the scheduler sends summary_update for an analysis' summary, the
\* lecture's summary in the store has already been updated to it.
C7_SummaryStoredBeforeEvent ==
    [][(pc = "summary" /\ outbound' # outbound) =>
          lecture.summary = call.analysis.summary]_vars

EventRank(type) ==
    CASE type = "topic_update"         -> 1
      [] type = "new_takeaway"         -> 2
      [] type = "summary_update"       -> 3
      [] type = "new_card"             -> 4
      [] type = "deep_research_result" -> 5

\* C8: the events of one pipeline invocation are sent in the order
\* topic_update, new_takeaway, summary_update, new_card(s),
\* deep_research_result.
C8_EventOrder ==
    \A i, j \in DOMAIN outbound :
        (/\ i < j
         /\ outbound[i].by = "scheduler" /\ outbound[j].by = "scheduler"
         /\ outbound[i].inv = outbound[j].inv) =>
            EventRank(outbound[i].type) <= EventRank(outbound[j].type)

\* C8 witness: one invocation has sent an event of each of the five kinds
C8_Witness ==
    \E n \in DOMAIN invocations :
        \A type \in {"topic_update", "new_takeaway", "summary_update",
                     "new_card", "deep_research_result"} :
            \E i \in EventsOfType(type) : outbound[i].inv = n

\* C9: when the event of a Card or Takeaway is sent, the artifact's
\* lecture_timestamp_seconds is at least 0 and at most the seconds elapsed
\* since the session's start at that moment.
C9_TimestampBounded ==
    [][outbound' # outbound =>
          LET e == outbound'[Len(outbound')]
          IN  e.type \in {"new_card", "new_takeaway", "deep_research_result"} =>
                 /\ e.payload.lecture_timestamp_seconds >= 0
                 /\ e.payload.lecture_timestamp_seconds <= clock - stt.start_time]_vars

\* C9 witness: the user's job and the scheduler have each sent an artifact,
\* one of them stamped before the clock moved on
C9_Witness ==
    /\ \E i \in EventsOfType("deep_research_result") : outbound[i].by = "user"
    /\ \E i \in EventsOfType("new_takeaway") :
          /\ outbound[i].payload.lecture_timestamp_seconds > 0
          /\ outbound[i].payload.lecture_timestamp_seconds < clock - stt.start_time

\* C10: the invocation that retries a failed invocation gets an input that
\* contains the text of every utterance that triggered the failed one.
C10_RetryKeepsFailedText ==
    \A i \in DOMAIN invocations :
        (i > 1 /\ invocations[i].retry /\ invocations[i - 1].result = "failed") =>
            \A k \in DOMAIN invocations[i - 1].buffer :
                IsSubstring(invocations[i - 1].buffer[k], invocations[i].combined)

\* the last value the wall clock takes in a run
LastTick == StartEpoch + MaxTicks * TickStep

\* C11: when a pipeline invocation started at scheduler time t has failed,
\* retry_pending is set and retry_after = t + RETRY_BACKOFF, and a successful
\* invocation leaves retry_pending cleared; and a failed invocation is
\* eventually followed by another invocation, started at a time >= t +
\* RETRY_BACKOFF, also when no new utterance arrives (for the failures after
\* which the run still has an invocation and RETRY_BACKOFF seconds left).
C11_FailedInvocationIsRetried ==
    /\ [](pc = "idle" /\ invocations # <<>> =>
            LET last == invocations[Len(invocations)]
            IN  /\ last.result = "failed" =>
                       /\ sched.retry_pending
                       /\ sched.retry_after = last.now + RETRY_BACKOFF
                /\ last.result = "ok" => ~sched.retry_pending)
    /\ \A i \in 1..(RetryMaxInvocations - 1) :
          (/\ Len(invocations) >= i
           /\ invocations[i].result = "failed"
           /\ invocations[i].now + RETRY_BACKOFF <= LastTick)
          ~> (/\ Len(invocations) > i
              /\ invocations[i + 1].now >= invocations[i].now + RETRY_BACKOFF)

\* C11 witness: the first invocation failed, no utterance arrived afterwards,
\* and the retry ran on the transcript tail and succeeded
C11_Witness ==
    /\ Len(invocations) = 2
    /\ invocations[1].result = "failed"
    /\ invocations[2].retry /\ ~invocations[2].normal
    /\ invocations[2].buffer = <<>>
    /\ invocations[2].now >= invocations[1].now + RETRY_BACKOFF
    /\ invocations[2].result = "ok"
    /\ ~sched.retry_pending

\* the invocations that returned failure from the analyze call
AnalyzeFailures ==
    {i \in DOMAIN invocations :
        invocations[i].result = "failed" /\ invocations[i].at = "analyze"}

\* C12: a pipeline invocation whose analyze call fails sends no outbound
\* event and persists no artifact (no event, card or takeaway carries its
\* number), and neither its start nor its failing return changes the outbound
\* stream, the store, the term cache, the researched set or
\* last_deep_research_time.
C12_AnalyzeFailureLeavesNoTrace ==
    /\ [](\A i \in AnalyzeFailures :
            /\ \A e \in DOMAIN outbound :
                   ~(outbound[e].by = "scheduler" /\ outbound[e].inv = i)
            /\ \A c \in DOMAIN cards :
                   ~(cards[c].by = "scheduler" /\ cards[c].inv = i)
            /\ \A t \in DOMAIN takeaways : takeaways[t].inv # i)
    /\ [][((pc = "idle" /\ pc' = "analyze") \/ (pc = "analyze" /\ pc' = "idle")) =>
            UNCHANGED <<outbound, cards, takeaways, lecture, term_cache,
                        deep_research_cache, last_deep_research_time>>]_vars

\* C12 witness: an invocation that cached a term, researched a topic and sent
\* events is followed by one whose analyze call failed
C12_Witness ==
    /\ 2 \in AnalyzeFailures
    /\ invocations[1].result = "ok"
    /\ term_cache # <<>>
    /\ deep_research_cache # {}
    /\ outbound # <<>>
    /\ cards # <<>>

C14_NotReopened ==
    [][(lecture.status = "completed" /\ ctl.pc = "closed") =>
          /\ ctl'.pc = "closed"
          /\ stt' = stt
          /\ pc' = pc
          /\ UNCHANGED <<lecture, cards, takeaways>>]_vars

\* the summary_update events the end_session branch has sent
FinalSummaryEvents ==
    {i \in DOMAIN outbound :
        outbound[i].by = "controller" /\ outbound[i].type = "summary_update"}

\* C15: when an end_session message has been handled, its finalize_lecture
\* has committed and the handler has returned, exactly one final
\* summary_update event has been sent.
C15_OneFinalSummary ==
    (ctl.pc = "closed" /\ ctl.ended /\ ctl.end_finalize = "committed") =>
        Cardinality(FinalSummaryEvents) = 1

\* C16: when an end_session with a non-empty final summary has been handled,
\* its finalize_lecture has committed and the session is torn down, the
\* lecture's stored summary is that final summary.
C16_FinalSummaryLast ==
    (/\ ctl.pc = "closed"
     /\ ctl.ended
     /\ ctl.final_summary # None
     /\ ctl.end_finalize = "committed") =>
        lecture.summary = ctl.final_summary

\* C17: after the teardown has run (the handler has returned), no task of the
\* session inserts a card or a takeaway, updates the lecture or writes an
\* outbound event.
C17_NothingAfterTeardown ==
    [][ctl.pc = "closed" => UNCHANGED <<cards, takeaways, lecture, outbound>>]_vars

\* C18: once a write of an outbound event to the client socket has failed,
\* the pipeline does not go on: no card or takeaway is persisted for that
\* client any more.
C18_NoArtifactAfterWriteFailure ==
    [][socket = "failed" => UNCHANGED <<cards, takeaways>>]_vars

\* C19: handling a text frame that is not one of the four control messages
\* (invalid JSON, JSON that is not an object, an object without type, an
\* unknown type) changes nothing but the count of frames read: the handler
\* stays in its receive loop, no event is sent and no session state changes.
C19_MalformedIgnored ==
    [][(frames' # frames /\ frames'[Len(frames')] \in MalformedFrames) =>
          /\ ctl' = ctl
          /\ UNCHANGED <<sttVars, audio, schedVars, storeVars, sinkVars, jobVars>>]_vars

\* C20: while the session is paused (from the pause message to the next
\* resume) no transcript_interim or transcript_final event is written to the
\* client.
C20_NoTranscriptWhilePaused ==
    [][stt.paused =>
          ~(/\ outbound' # outbound
            /\ outbound'[Len(outbound')].type \in
                  {"transcript_interim", "transcript_final"})]_vars

\* C21: send_audio enqueues the chunk exactly when the session is neither
\* paused nor stopped and otherwise leaves the send buffer as it is; it
\* changes no other field of the session, and pause and resume change the
\* paused flag alone.
C21_SendAudioPauseResume ==
    [][/\ frames' = Append(frames, "audio")
          => /\ UNCHANGED <<stt, loop_calls, utterance_queue, interim_queue>>
             /\ audio'.upstream = audio.upstream
             /\ audio'.queue = IF stt.paused \/ stt.stopped
                               THEN audio.queue ELSE audio.queue + 1
       /\ frames' = Append(frames, "pause")
          => /\ stt' = [stt EXCEPT !.paused = TRUE]
             /\ UNCHANGED <<audio, loop_calls, utterance_queue, interim_queue>>
       /\ frames' = Append(frames, "resume")
          => /\ stt' = [stt EXCEPT !.paused = FALSE]
             /\ UNCHANGED <<audio, loop_calls, utterance_queue, interim_queue>>]_vars

\* a chunk was received and not enqueued by a session that was never paused:
\* it was stopped by the lecture's other handler
C21_Witness ==
    /\ ctl.pc = "receive"
    /\ stt.stopped
    /\ audio.dropped > 0
    /\ audio.queue > 0
    /\ "pause" \notin Range(frames)

\* the transcript events the STT results received so far call for, in the
\* order of their arrival: a result without text calls for none
TranscriptResults ==
    LET results == SelectSeq(received, LAMBDA p : p.transcript # <<>>)
    IN  [i \in DOMAIN results |->
            [type |-> IF IsFinal(results[i]) THEN "transcript_final"
                      ELSE "transcript_interim",
             text |-> results[i].transcript]]

\* the transcript events written to the client, in the order of the writes
TranscriptEvents ==
    LET events == SelectSeq(outbound, LAMBDA ev :
                      ev.type \in {"transcript_interim", "transcript_final"})
    IN  [i \in DOMAIN events |->
            [type |-> events[i].type, text |-> events[i].payload.text]]

\* C22: the transcript_interim and transcript_final events reach the client
\* in the order in which the STT receiver received their results: the
\* events written so far are the first of the events the results call for.
C22_TranscriptEventsInOrder ==
    /\ Len(TranscriptEvents) <= Len(TranscriptResults)
    /\ \A i \in DOMAIN TranscriptEvents : TranscriptEvents[i] = TranscriptResults[i]

\* an interim and a final result have both reached the client
C22_Witness ==
    /\ Len(TranscriptEvents) = 2
    /\ TranscriptEvents[1].type # TranscriptEvents[2].type

\* the utterance-stream: the texts in the utterance queue, then those whose
\* put_nowait the event loop has not run yet
UtteranceStream ==
    LET pending == SelectSeq(loop_calls, LAMBDA c : c.queue = "utterance")
    IN  [i \in DOMAIN utterance_queue |-> utterance_queue[i].text]
        \o [i \in DOMAIN pending |-> pending[i].text]

IsSuffix(s, t) ==
    /\ Len(s) <= Len(t)
    /\ SubSeq(t, Len(t) - Len(s) + 1, Len(t)) = s

\* the utterances of the batch of the pipeline invocation in flight
Batch == IF call.inv > 0 THEN Range(invocations[call.inv].buffer) ELSE {}

\* C23: an utterance is in the rolling transcript before it is in the
\* utterance-stream, so the transcript contains every utterance the scheduler
\* dequeues, buffers and hands to a pipeline invocation as its batch, and
\* the context_tail the invocation has read is at most PIPELINE_CONTEXT_CHARS
\* characters of that transcript; the utterance-stream carries the final results with text, in
\* arrival order, and no interim one.
C23_TranscriptHasBatch ==
    /\ IsSuffix(UtteranceStream, FinalTexts(received))
    /\ \A u \in Range(UtteranceStream) \cup Range(sched.utterance_buffer) \cup Batch :
          IsSubstring(u, stt.full_transcript)
    /\ (call.inv > 0 /\ pc # "analyze")
          => /\ IsSubstring(call.context_tail, stt.full_transcript)
             /\ Len(call.context_tail) <= PIPELINE_CONTEXT_CHARS

\* a pipeline invocation has read its context tail for a batch of two
\* utterances, and an interim result was received as well
C23_Witness ==
    /\ call.inv > 0
    /\ pc # "analyze"
    /\ Len(invocations[call.inv].buffer) = 2
    /\ \E i \in DOMAIN received : ~IsFinal(received[i])

\* C23 as stated: the context tail a pipeline invocation has read includes
\* every utterance of its batch.
C23_ContextTailHasBatch ==
    (call.inv > 0 /\ pc # "analyze")
       => \A u \in Batch : IsSubstring(u, call.context_tail)

\* the process_utterances task of a handler exists and is not cancelled
SchedulerRuns(handler) == handler.pc \notin {"none", "cancelled"}

\* a _run_pipeline call of the handler's scheduler is in flight
InFlight(handler) == handler.pc \notin {"none", "cancelled", "idle"}

\* C24: a lecture has at most one scheduler and at most one pipeline
\* invocation in flight, and a handler that is receiving has a SmallestSession
\* that no other handler's return has stopped.
C24_OneSchedulerPerLecture ==
    /\ ~(SchedulerRuns(Locals) /\ SchedulerRuns(peer))
    /\ ~(InFlight(Locals) /\ InFlight(peer))
    /\ ctl.pc = "receive" => ~stt.stopped

\* C25: when the STT has terminated (a send failed, the connection did not
\* open or the receiver ended) the controller does not go on accepting
\* audio: no chunk is put on the audio queue of a session whose thread has
\* ended.
C25_NoAudioWithoutStt ==
    [][stt.thread = "ended" => audio'.queue <= audio.queue]_vars

\* C26: when the thread of a stopped SmallestSession has ended, and with it
\* the upstream connection is closed, the finalize frame was sent.
C26_FinalizeBeforeClose ==
    (stt.stopped /\ stt.thread = "ended") => audio.finalize_sent

\* the last call that used `key`: a put of it or a get that found it
LastUse(key) ==
    LET uses == {i \in DOMAIN cache_calls :
                    /\ cache_calls[i].key = key
                    /\ \/ cache_calls[i].op = "put"
                       \/ cache_calls[i].op = "get" /\ cache_calls[i].hit}
    IN  CHOOSE i \in uses : \A j \in uses : j <= i

\* the least recently used key of a cache that is not empty
LeastRecentlyUsed ==
    CHOOSE k \in CacheKeys(term_cache) :
        \A j \in CacheKeys(term_cache) : LastUse(k) <= LastUse(j)

\* C27: a TermCache of capacity N never holds more than N entries; a put
\* of a new key into a full cache evicts the least recently used key and no
\* other, where a put and a get that finds its key are the uses; a put of a
\* present key or into a cache with room evicts nothing; get, contains and
\* filter_new leave the set of keys as it is.
C27_LruEviction ==
    [][cache_calls' # cache_calls =>
         LET c == cache_calls'[Len(cache_calls')]
             keys == CacheKeys(term_cache)
         IN  /\ Len(term_cache') <= CacheCapacity
             /\ Len(term_cache') = Cardinality(CacheKeys(term_cache'))
             /\ CacheKeys(term_cache') =
                   IF c.op # "put" THEN keys
                   ELSE IF c.hit \/ Len(term_cache) < CacheCapacity
                        THEN keys \cup {c.key}
                        ELSE (keys \ {LeastRecentlyUsed}) \cup {c.key}
             /\ c.op \in {"contains", "filter_new"} => term_cache' = term_cache]_vars

\* a put into the full cache has evicted the key that was put second: the
\* key that was put first had been found by a get since
C27_Witness ==
    /\ Len(term_cache) = CacheCapacity
    /\ \E i, j, k \in DOMAIN cache_calls :
          /\ i < j /\ j < k
          /\ cache_calls[i].op = "put"
          /\ cache_calls[i].key \in CacheKeys(term_cache)
          /\ cache_calls[j].op = "put"
          /\ cache_calls[j].key \notin CacheKeys(term_cache)
          /\ cache_calls[k].op = "get"
          /\ cache_calls[k].hit
          /\ cache_calls[k].key = cache_calls[i].key

\* C28: no step of a user-triggered deep-research job changes the
\* scheduler's last_deep_research_time or researched set, the term cache,
\* the utterance buffer or the retry state; the job runs beside a pipeline
\* invocation in flight.
C28_JobLeavesSchedulerState ==
    [][job' # job =>
         UNCHANGED <<last_deep_research_time, deep_research_cache, term_cache,
                     sched>>]_vars

\* the job has persisted its card and is about to send it while a pipeline
\* invocation is in flight
C28_Witness ==
    /\ job.pc = "send"
    /\ pc \notin {"idle", "cancelled"}
    /\ call.inv > 0

\* C29: the job of a deep_research message ends in no other way than by
\* sending the deep_research_result of the card it has persisted, whose term
\* is the selected_text and whose kind is deep_research.
C29_JobEndsWithResult ==
    [][(job.pc # "none" /\ job'.pc = "none") =>
         /\ outbound' # outbound
         /\ LET ev == outbound'[Len(outbound')]
            IN  /\ ev.type = "deep_research_result"
                /\ ev.payload.term = job.selected_text
                /\ ev.payload.type = "deep_research"
                /\ \E i \in DOMAIN cards : cards[i] = ev.payload]_vars

\* C30: a Card or a Takeaway is in the store only while the lecture's row
\* is.
C30_ArtifactsHaveLecture ==
    (cards # <<>> \/ takeaways # <<>>) => lecture.present


\* the program positions at which the pending statement is a store write
StoreSteps == {"takeaway", "summary_save", "cards", "dr_save"}

\* C31: a store failure while persisting an artifact does not mark the
\* pipeline invocation as failed: no invocation has returned failure from a
\* step whose pending statement was a store write (so every failed invocation
\* failed in a step that is not a write).
C31_StoreFailureContinues ==
    \A i \in DOMAIN invocations :
        invocations[i].result = "failed" => invocations[i].at \notin StoreSteps


\* the step in which the scheduler's pipeline makes its deep_research call
SchedulerResearchCall == pc = "dr" /\ pc' = "dr_call"

\* C32: last_deep_research_time changes only in the step that makes a
\* scheduler-initiated deep_research call and is then the time of that call;
\* such a call is made only DEEP_RESEARCH_INTERVAL or more after the one
\* before it, so any two of them are at least that far apart; and a pipeline
\* invocation that reaches the research step less than DEEP_RESEARCH_INTERVAL
\* after the last call makes no call and leaves the researched set and
\* last_deep_research_time unchanged.
C32_ResearchCallsApart ==
    /\ [][last_deep_research_time' # last_deep_research_time =>
              SchedulerResearchCall]_vars
    /\ [][SchedulerResearchCall =>
              /\ clock - last_deep_research_time >= DEEP_RESEARCH_INTERVAL
              /\ last_deep_research_time' = clock]_vars
    /\ [][(pc = "dr" /\ pc' # "dr"
                     /\ clock - last_deep_research_time < DEEP_RESEARCH_INTERVAL) =>
              /\ ~SchedulerResearchCall
              /\ UNCHANGED <<deep_research_cache, last_deep_research_time>>]_vars

\* C32 witness: the second invocation makes a deep_research call after the
\* first one made one that produced a card
C32_Witness ==
    /\ pc = "dr_call"
    /\ call.inv = 2
    /\ \E c \in SchedulerResearchCards : cards[c].inv = 1
    /\ Cardinality(deep_research_cache) = 2


\* the topic of an invocation as a research candidate: present, emphasised
EmphasisedTopic(analysis) ==
    analysis.topic # None /\ analysis.emphasis_level > EMPHASIS_THRESHOLD_FOR_DR

\* the strings of the analysed terms
TermStrings(analysis) == {analysis.terms[i].term : i \in DOMAIN analysis.terms}

\* a candidate string that is not remembered as researched
NotResearched(c) == lower(strip(c)) \notin deep_research_cache

FailedInvocations ==
    {i \in DOMAIN invocations : invocations[i].result = "failed"}

\* C34: an invocation that is reported as failed (so that retry_pending is
\* set on its account) has sent no outbound event and persisted no card and
\* no takeaway.
C34_FailedInvocationLeavesNoTrace ==
    \A i \in FailedInvocations :
        /\ \A e \in DOMAIN outbound :
               outbound[e].by = "scheduler" => outbound[e].inv # i
        /\ \A c \in DOMAIN cards :
               cards[c].by = "scheduler" => cards[c].inv # i
        /\ \A t \in DOMAIN takeaways : takeaways[t].inv # i


\* C35: every key of the session's term cache is the normalized term of an
\* auto_define card persisted for the session.
C35_CachedTermsHaveCards ==
    \A k \in CacheKeys(term_cache) :
        \E c \in AutoDefineCards : _normalise(cards[c].term) = k


\* the invocations whose deep_research call returned nothing, or whose
\* deep_research card could not be stored
ResearchFailures ==
    {i \in DOMAIN invocations : invocations[i].at \in {"dr_call", "dr_save"}}

\* C36: the researched set only grows; while a scheduler deep_research call
\* is pending (its outcome not yet known) its candidate is already in the set
\* and last_deep_research_time is the time the call was made; the scheduler
\* selects no candidate that is in the set, so none is selected twice; a
\* scheduler deep_research card is stored only by the invocation that selected
\* its term, and an invocation whose call returned nothing or whose card could
\* not be stored has no such card.
C36_ResearchedOnlyGrows ==
    /\ [][deep_research_cache \subseteq deep_research_cache']_vars
    /\ [][SchedulerResearchCall =>
              /\ lower(strip(call'.target)) \notin deep_research_cache
              /\ lower(strip(call'.target)) \in deep_research_cache'
              /\ last_deep_research_time' = clock]_vars
    /\ [](pc \in {"dr_call", "dr_save", "dr_send"} =>
              /\ lower(strip(call.target)) \in deep_research_cache
              /\ last_deep_research_time <= clock)
    /\ [][\A c \in SchedulerResearchCards' \ SchedulerResearchCards :
              /\ pc = "dr_save"
              /\ cards'[c].term = call.target
              /\ cards'[c].inv = call.inv]_vars
    /\ [](\A i \in ResearchFailures :
              \A c \in SchedulerResearchCards : cards[c].inv # i)

\* C36 witness: the deep_research call of the first invocation returned
\* nothing; the second invocation reaches the research step with the interval
\* elapsed and with candidates, all of which are in the researched set
C36_Witness ==
    /\ pc = "dr"
    /\ call.inv = 2
    /\ invocations[1].at = "dr_call"
    /\ clock - last_deep_research_time >= DEEP_RESEARCH_INTERVAL
    /\ TermStrings(call.analysis) # {}
    /\ \A t \in TermStrings(call.analysis) : ~NotResearched(t)
    /\ SchedulerResearchCards = {}


\* the utterances the scheduler has dequeued so far, in order: the final
\* results with text that are no longer in the utterance-stream
Dequeued ==
    SubSeq(FinalTexts(received), 1,
           Len(FinalTexts(received)) - Len(UtteranceStream))

\* the batches (buffers at the start) of the first n invocations, one after
\* the other
RECURSIVE Batches(_)
Batches(n) ==
    IF n = 0 THEN <<>> ELSE Batches(n - 1) \o invocations[n].buffer

\* u is received only once as a final result
ReceivedOnce(u) ==
    Cardinality({k \in DOMAIN FinalTexts(received) : FinalTexts(received)[k] = u}) = 1

\* C37 as stated: an utterance (one that was received only once) that was in
\* the batch of a pipeline invocation is no part of the combined input of a
\* later invocation.
C37_UtteranceInOneInput ==
    \A i, j \in DOMAIN invocations :
        i < j =>
            \A k \in DOMAIN invocations[i].buffer :
                ReceivedOnce(invocations[i].buffer[k]) =>
                    ~IsSubstring(invocations[i].buffer[k], invocations[j].combined)

\* C37: the batches of the invocations so far followed by the utterance
\* buffer are exactly the non-blank utterances dequeued so far, in order: a
\* non-blank dequeued utterance is in the buffer or in the batch of exactly one
\* invocation, a blank one is in neither; the input of an invocation with a
\* batch is the join of the batch (and it is the tail of the transcript only
\* when the batch is empty); the buffer is empty right after an invocation has
\* started; and while the session stays active a non-empty buffer is
\* eventually taken by an invocation (as long as the run has an invocation
\* and MIN_PIPELINE_INTERVAL of clock left).
C37_BufferedOnceThenBatched ==
    /\ [](Batches(Len(invocations)) \o sched.utterance_buffer
             = SelectSeq(Dequeued, LAMBDA u : strip(u) # <<>>))
    /\ [](\A i \in DOMAIN invocations :
             invocations[i].buffer # <<>> =>
                 invocations[i].combined = Join(invocations[i].buffer))
    /\ [][Len(invocations') > Len(invocations) =>
             sched'.utterance_buffer = <<>>]_vars
    /\ (/\ sched.utterance_buffer # <<>>
        /\ Len(invocations) < BufferMaxInvocations
        /\ sched.last_process_time + MIN_PIPELINE_INTERVAL <= LastTick)
       ~> (sched.utterance_buffer = <<>>)

\* C37 witness: a non-blank and a blank utterance were dequeued; the first
\* invocation had the non-blank one as its batch and failed; the retry found
\* the buffer empty and ran on the tail of the transcript
C37_Witness ==
    /\ Len(Dequeued) = 2
    /\ \E k \in DOMAIN Dequeued : strip(Dequeued[k]) = <<>>
    /\ Len(invocations) = 2
    /\ invocations[1].buffer = << <<"x">> >>
    /\ invocations[1].result = "failed"
    /\ invocations[2].buffer = <<>>
    /\ IsSubstring(<<"x">>, invocations[2].combined)


IsPrefix(s, t) == Len(s) <= Len(t) /\ SubSeq(t, 1, Len(s)) = s

\* the lecture's persisted transcript is unset or a prefix of the rolling
\* transcript
PersistedIsPrefix == IsPrefix(lecture.transcript, stt.full_transcript)

C39_RegistriesAgree ==
    /\ registry._sessions = registry._session_caches
    /\ (ctl.pc = "closed" /\ ~IsLive(peer.ctl)) =>
           /\ lecture_id \notin registry._sessions
           /\ lecture_id \notin registry._session_caches

\* C39 witness: two handlers were open on the lecture at once and both have
\* returned, the first to return having emptied the registries while the
\* other was running
C39_Witness ==
    /\ ctl.pc = "closed"
    /\ peer.ctl.pc = "closed"
    /\ ctl.session # peer.ctl.session
    /\ registry = NoRegistry

=============================================================================
